---- MODULE Spec2Model ----
(***************************************************************************)
(* Model of the charizard carbon-footprint service: the InMemoryStore     *)
(* (include/storage.hpp), the validating TransitEvent constructor         *)
(* (src/transit_validator.cpp), the emission calculator                   *)
(* (src/emission_calculator.cpp, src/emission_factors.cpp), the           *)
(* POST /users/{id}/transit handler (src/api.cpp), the helper             *)
(* make_transit_event_from_json (src/transit_logic.cpp), the store called *)
(* from several threads, and the MongoStore (include/mongo_store.hpp).    *)
(*                                                                         *)
(* Numbers.  Distances are whole kilometres.  A mass returned by          *)
(* emission_factor_for(mode) * distance_km is an integer number of        *)
(* 1/1000 kg; a mass returned by calculate_co2_emissions is an integer    *)
(* number of 1/(1000 * OccLcm) kg, so that the division by the occupancy  *)
(* is exact for every occupancy the model draws.  A double returned by a  *)
(* division of a sum by a count is kept as the fraction [num, den].       *)
(***************************************************************************)
EXTENDS Integers, Sequences, FiniteSets, TLC

VARIABLES
    events_,            \* InMemoryStore::events_  : user id -> vector<TransitEvent>
    cache_,             \* InMemoryStore::cache_   : user id -> FootprintSummary
    api_keys_,          \* InMemoryStore::api_keys_: user id -> hashed key
    app_names_,         \* InMemoryStore::app_names_
    logs_,              \* InMemoryStore::logs_    : vector<ApiLogRecord>
    emission_factors_,  \* InMemoryStore::emission_factors_
    now,                \* the wall clock (epoch seconds) read by clock::now() / std::time
    ret,                \* the last completed call and what it returned
    lastSum,            \* history: per user, what the last summarize(user) since the
                        \*   last clear operation returned
    since,              \* history: per user, the events added since that summarize
    mu_,                \* InMemoryStore::mu_: the threads holding the mutex
    pc,                 \* per thread, the call it is in and how far it got
    db_                 \* MongoStore::db_: the collections of the database

vars == <<events_, cache_, api_keys_, app_names_, logs_, emission_factors_,
          now, ret, lastSum, since, mu_, pc, db_>>

----------------------------------------------------------------------------
(* Bounds of the model *)

MaxEvents == 2      \* events held by the store at any time
MaxTicks  == 1      \* seconds the clock advances during a behaviour
MaxFactors == 2     \* entries held by the emission-factor table at any time
MaxRows == 2        \* data rows of a CSV text, items of a JSON array
MaxLogs == 2        \* records held by the request log at any time

----------------------------------------------------------------------------
(* Program constants *)

WEEK  == 7 * 24 * 3600
MONTH == 30 * 24 * 3600

\* The clock value at which a behaviour starts (any value above MONTH + 1).
Epoch0 == 40 * 24 * 3600

\* Scale of the masses returned by calculate_co2_emissions (see Numbers).
OccLcm == 2 * 3

Users == {"u1", "u2"}

kAllowedTransitModes == <<"taxi", "car", "bus", "subway", "train", "bike", "walk">>

NoSummary == [none |-> TRUE]

FootprintSummary(l, w, m) ==
    [lifetime_kg_co2 |-> l, week_kg_co2 |-> w, month_kg_co2 |-> m]

ZeroSummary == FootprintSummary(0, 0, 0)

\* A default-constructed TransitEvent with its fields assigned.
MakeEvent(u, m, f, s, o, d, t) ==
    [user_id |-> u, mode |-> m, fuel_type |-> f, vehicle_size |-> s,
     occupancy |-> o, distance_km |-> d, ts |-> t]

----------------------------------------------------------------------------
(* Maps: an unordered_map is a function whose DOMAIN is its set of keys *)

EmptyMap == [k \in {} |-> 0]

MapErase(m, k) == [x \in (DOMAIN m) \ {k} |-> m[x]]

MapPut(m, k, v) == [x \in (DOMAIN m) \cup {k} |-> IF x = k THEN v ELSE m[x]]

----------------------------------------------------------------------------
(* emission_factor_for, in 1/1000 kg per km *)

emission_factor_for(mode) ==
    IF mode = "taxi" \/ mode = "car" THEN 180
    ELSE IF mode = "bus" THEN 80
    ELSE IF mode = "subway" \/ mode = "train" THEN 40
    ELSE IF mode = "bike" \/ mode = "walk" THEN 0
    ELSE 100

----------------------------------------------------------------------------
(* DefaultEmissionFactors and calculate_co2_emissions *)

EmissionFactor(m, f, s, k, src, upd) ==
    [mode |-> m, fuel_type |-> f, vehicle_size |-> s, kg_co2_per_km |-> k,
     source |-> src, updated_at |-> upd]

\* DefaultEmissionFactors::defra_2024_factors(), rates in 1/1000 kg per km.
defra_2024_factors ==
    << EmissionFactor("car", "petrol", "small", 167, "DEFRA-2024", 0),
       EmissionFactor("car", "petrol", "medium", 203, "DEFRA-2024", 0),
       EmissionFactor("car", "petrol", "large", 291, "DEFRA-2024", 0),
       EmissionFactor("car", "diesel", "small", 142, "DEFRA-2024", 0),
       EmissionFactor("car", "diesel", "medium", 168, "DEFRA-2024", 0),
       EmissionFactor("car", "diesel", "large", 241, "DEFRA-2024", 0),
       EmissionFactor("car", "electric", "small", 74, "DEFRA-2024", 0),
       EmissionFactor("car", "electric", "medium", 88, "DEFRA-2024", 0),
       EmissionFactor("car", "electric", "large", 115, "DEFRA-2024", 0),
       EmissionFactor("car", "hybrid", "small", 132, "DEFRA-2024", 0),
       EmissionFactor("car", "hybrid", "medium", 155, "DEFRA-2024", 0),
       EmissionFactor("car", "hybrid", "large", 210, "DEFRA-2024", 0),
       EmissionFactor("taxi", "petrol", "medium", 203, "DEFRA-2024", 0),
       EmissionFactor("taxi", "diesel", "medium", 168, "DEFRA-2024", 0),
       EmissionFactor("taxi", "electric", "medium", 88, "DEFRA-2024", 0),
       EmissionFactor("taxi", "hybrid", "medium", 155, "DEFRA-2024", 0),
       EmissionFactor("bus", "", "", 73, "DEFRA-2024", 0),
       EmissionFactor("subway", "", "", 41, "DEFRA-2024", 0),
       EmissionFactor("train", "", "", 51, "DEFRA-2024", 0),
       EmissionFactor("bike", "", "", 0, "DEFRA-2024", 0),
       EmissionFactor("walk", "", "", 0, "DEFRA-2024", 0) >>

NullOpt == [has_value |-> FALSE]

Some(v) == [has_value |-> TRUE, value |-> v]

\* DefaultEmissionFactors::get_default_factor: the first entry with the triple.
get_default_factor(mode, fuel_type, vehicle_size) ==
    LET hits == {i \in DOMAIN defra_2024_factors :
                    /\ defra_2024_factors[i].mode = mode
                    /\ defra_2024_factors[i].fuel_type = fuel_type
                    /\ defra_2024_factors[i].vehicle_size = vehicle_size}
    IN IF hits = {} THEN NullOpt
       ELSE Some(defra_2024_factors[CHOOSE i \in hits : \A j \in hits : i <= j])

\* A variant of FallbackFactor with the legacy rates of emission_factor_for.
FallbackFactorLegacy(mode, fuel_type, vehicle_size) ==
    EmissionFactor(mode, "", "", emission_factor_for(mode), "FALLBACK", 0)

\* The fallback ladder of lines 25-49.
FallbackFactor(mode, fuel_type, vehicle_size) ==
    IF mode = "car" \/ mode = "taxi"
    THEN EmissionFactor(mode, fuel_type, vehicle_size, 180, "FALLBACK", 0)
    ELSE IF mode = "bus" THEN EmissionFactor(mode, "", "", 73, "FALLBACK", 0)
    ELSE IF mode = "subway" \/ mode = "train" \/ mode = "underground" \/ mode = "rail"
    THEN EmissionFactor(mode, "", "", 41, "FALLBACK", 0)
    ELSE IF mode = "bike" \/ mode = "walk" THEN EmissionFactor(mode, "", "", 0, "FALLBACK", 0)
    ELSE EmissionFactor(mode, "", "", 100, "FALLBACK", 0)

\* A variant of calculate_co2_emissions that checks the occupancy of a car or
\* taxi only.
calculate_co2_emissionsCarCheck(mode, fuel_type, vehicle_size, occupancy, distance_km) ==
    IF distance_km < 0 THEN [ok |-> FALSE, what |-> "Distance cannot be negative"]
    ELSE IF (mode = "car" \/ mode = "taxi") /\ occupancy < 1
    THEN [ok |-> FALSE, what |-> "Occupancy must be at least 1.0"]
    ELSE LET factor_opt == get_default_factor(mode, fuel_type, vehicle_size)
             factor == IF factor_opt.has_value THEN factor_opt.value
                       ELSE FallbackFactor(mode, fuel_type, vehicle_size)
             total_kg_co2 == factor.kg_co2_per_km * distance_km * OccLcm
         IN [ok |-> TRUE,
             kg |-> IF mode = "car" \/ mode = "taxi"
                    THEN total_kg_co2 \div occupancy
                    ELSE total_kg_co2]

\* A variant of calculate_co2_emissions that divides by the occupancy for
\* every mode.
calculate_co2_emissionsShared(mode, fuel_type, vehicle_size, occupancy, distance_km) ==
    IF distance_km < 0 THEN [ok |-> FALSE, what |-> "Distance cannot be negative"]
    ELSE IF occupancy < 1 THEN [ok |-> FALSE, what |-> "Occupancy must be at least 1.0"]
    ELSE LET factor_opt == get_default_factor(mode, fuel_type, vehicle_size)
             factor == IF factor_opt.has_value THEN factor_opt.value
                       ELSE FallbackFactor(mode, fuel_type, vehicle_size)
         IN [ok |-> TRUE, kg |-> (factor.kg_co2_per_km * distance_km * OccLcm) \div occupancy]

\* calculate_co2_emissions: [ok |-> FALSE, what] for a throw, else the mass
\* in 1/(1000 * OccLcm) kg.
calculate_co2_emissions(mode, fuel_type, vehicle_size, occupancy, distance_km) ==
    IF distance_km < 0 THEN [ok |-> FALSE, what |-> "Distance cannot be negative"]
    ELSE IF occupancy < 1 THEN [ok |-> FALSE, what |-> "Occupancy must be at least 1.0"]
    ELSE LET factor_opt == get_default_factor(mode, fuel_type, vehicle_size)
             factor == IF factor_opt.has_value THEN factor_opt.value
                       ELSE FallbackFactor(mode, fuel_type, vehicle_size)
             total_kg_co2 == factor.kg_co2_per_km * distance_km * OccLcm
         IN [ok |-> TRUE,
             kg |-> IF mode = "car" \/ mode = "taxi"
                    THEN total_kg_co2 \div occupancy
                    ELSE total_kg_co2]

\* A direct call, as the unit tests make it.
calculate(mode, fuel_type, vehicle_size, occupancy, distance_km) ==
    /\ ret' = [op |-> "calculate_co2_emissions", at |-> now,
               args |-> <<mode, fuel_type, vehicle_size, occupancy, distance_km>>,
               res |-> calculate_co2_emissions(mode, fuel_type, vehicle_size,
                                               occupancy, distance_km)]
    /\ UNCHANGED <<events_, cache_, api_keys_, app_names_, logs_, emission_factors_,
                   now, lastSum, since, mu_, pc, db_>>

----------------------------------------------------------------------------
(* InMemoryStore::summarize *)

\* The loop of lines 255-263 from element i on, with the sums so far in s.
RECURSIVE SummarizeLoop(_, _, _, _, _)
SummarizeLoop(vec, i, s, week_start, month_start) ==
    IF i > Len(vec) THEN s
    ELSE LET ev == vec[i]
             kg == emission_factor_for(ev.mode) * ev.distance_km
         IN SummarizeLoop(vec, i + 1,
                FootprintSummary(
                    s.lifetime_kg_co2 + kg,
                    IF ev.ts >= week_start THEN s.week_kg_co2 + kg ELSE s.week_kg_co2,
                    IF ev.ts >= month_start THEN s.month_kg_co2 + kg ELSE s.month_kg_co2),
                week_start, month_start)

\* What summarize(user) returns with the clock at clk: the cached summary when
\* there is one, zeros when the user has no log, else the freshly folded sums.
SummarizeValue(user, clk) ==
    IF user \in DOMAIN cache_ THEN cache_[user]
    ELSE IF user \notin DOMAIN events_ THEN ZeroSummary
    ELSE SummarizeLoop(events_[user], 1, ZeroSummary, clk - WEEK, clk - MONTH)

\* The cache after summarize(user): only a freshly folded summary is stored.
SummarizeCache(user, clk) ==
    IF user \in DOMAIN cache_ \/ user \notin DOMAIN events_ THEN cache_
    ELSE MapPut(cache_, user, SummarizeValue(user, clk))

\* A variant of SummarizeEvents that looks the user up with events_[user],
\* which inserts an empty vector for a user without one.
SummarizeEventsInserting(user) ==
    IF user \in DOMAIN events_ THEN events_ ELSE MapPut(events_, user, <<>>)

\* The log after summarize(user): events_.find(user) inserts nothing.
SummarizeEvents(user) == events_

summarize(user) ==
    /\ events_' = SummarizeEvents(user)
    /\ cache_' = SummarizeCache(user, now)
    /\ ret' = [op |-> "summarize", user |-> user, at |-> now,
               val |-> SummarizeValue(user, now),
               prev |-> lastSum[user], added |-> since[user]]
    /\ lastSum' = [lastSum EXCEPT ![user] = SummarizeValue(user, now)]
    /\ since' = [since EXCEPT ![user] = <<>>]
    /\ UNCHANGED <<api_keys_, app_names_, logs_, emission_factors_, now>>
    /\ UNCHANGED <<mu_, pc, db_>>

----------------------------------------------------------------------------
(* InMemoryStore::global_average_weekly *)

\* The inner loop of lines 284-291 over one user's vector: [u_week, has].
RECURSIVE WeekLoop(_, _, _, _)
WeekLoop(vec, i, acc, week_start) ==
    IF i > Len(vec) THEN acc
    ELSE LET ev == vec[i]
         IN WeekLoop(vec, i + 1,
                IF ev.ts >= week_start
                THEN [u_week |-> acc.u_week + emission_factor_for(ev.mode) * ev.distance_km,
                      has |-> TRUE]
                ELSE acc,
                week_start)

\* A variant of UsersLoop that counts every user with a log in
\* users_with_data, whether or not one of the user's events is in the window.
RECURSIVE UsersLoopCountingAll(_, _, _)
UsersLoopCountingAll(keys, acc, week_start) ==
    IF keys = {} THEN acc
    ELSE LET user == CHOOSE k \in keys : TRUE
             w == WeekLoop(events_[user], 1, [u_week |-> 0, has |-> FALSE], week_start)
         IN UsersLoopCountingAll(keys \ {user},
                [total |-> acc.total + w.u_week,
                 users_with_data |-> acc.users_with_data + 1],
                week_start)

\* The outer loop of lines 280-297 over the keys still to visit.
RECURSIVE UsersLoop(_, _, _)
UsersLoop(keys, acc, week_start) ==
    IF keys = {} THEN acc
    ELSE LET user == CHOOSE k \in keys : TRUE
             w == WeekLoop(events_[user], 1, [u_week |-> 0, has |-> FALSE], week_start)
         IN UsersLoop(keys \ {user},
                IF w.has
                THEN [total |-> acc.total + w.u_week,
                      users_with_data |-> acc.users_with_data + 1]
                ELSE acc,
                week_start)

\* The double returned, as a fraction: 0.0 or total / users_with_data.
GlobalAverageValue(clk) ==
    LET acc == UsersLoop(DOMAIN events_, [total |-> 0, users_with_data |-> 0], clk - WEEK)
    IN IF acc.users_with_data = 0 THEN [num |-> 0, den |-> 1]
       ELSE [num |-> acc.total, den |-> acc.users_with_data]

global_average_weekly ==
    /\ ret' = [op |-> "global_average_weekly", at |-> now, val |-> GlobalAverageValue(now)]
    /\ UNCHANGED <<events_, cache_, api_keys_, app_names_, logs_, emission_factors_,
                   now, lastSum, since>>
    /\ UNCHANGED <<mu_, pc, db_>>

----------------------------------------------------------------------------
(* InMemoryStore::add_event, clear_db_events, clear_db, get_events, get_clients *)

\* A variant of AddEventLog that keeps a user's vector in ascending ts
\* order: the new event goes before the first stored event with a larger ts.
AddEventLogSorted(ev) ==
    LET vec == IF ev.user_id \in DOMAIN events_ THEN events_[ev.user_id] ELSE <<>>
        k == Cardinality({i \in DOMAIN vec : vec[i].ts <= ev.ts})
    IN MapPut(events_, ev.user_id,
              SubSeq(vec, 1, k) \o <<ev>> \o SubSeq(vec, k + 1, Len(vec)))

\* events_[ev.user_id].push_back(ev)
AddEventLog(ev) ==
    MapPut(events_, ev.user_id,
           IF ev.user_id \in DOMAIN events_ THEN Append(events_[ev.user_id], ev) ELSE <<ev>>)

\* A variant of AddEventCache that drops every user's cached summary.
AddEventCacheCleared(ev) == EmptyMap

\* A variant of AddEventCache that leaves the cached summary in place.
AddEventCacheKept(ev) == cache_

\* A variant of AddEventCache that drops the cached summary only when the
\* user already has a log.
AddEventCacheOfKnownUser(ev) ==
    IF ev.user_id \in DOMAIN events_ THEN MapErase(cache_, ev.user_id) ELSE cache_

\* cache_.erase(ev.user_id)
AddEventCache(ev) == MapErase(cache_, ev.user_id)

add_event(ev) ==
    /\ events_' = AddEventLog(ev)
    /\ cache_' = AddEventCache(ev)
    /\ ret' = [op |-> "add_event", user |-> ev.user_id, ev |-> ev, at |-> now]
    /\ since' = [since EXCEPT ![ev.user_id] = Append(@, ev)]
    /\ UNCHANGED <<api_keys_, app_names_, logs_, emission_factors_, now, lastSum>>
    /\ UNCHANGED <<mu_, pc, db_>>

\* A variant of clear_db_events that clears the API keys as well.
clear_db_eventsAndKeys ==
    /\ events_' = EmptyMap
    /\ api_keys_' = EmptyMap
    /\ cache_' = cache_
    /\ ret' = [op |-> "clear_db_events", at |-> now]
    /\ lastSum' = [u \in Users |-> NoSummary]
    /\ since' = [u \in Users |-> <<>>]
    /\ UNCHANGED <<app_names_, logs_, emission_factors_, now>>
    /\ UNCHANGED <<mu_, pc, db_>>

\* A variant of clear_db that leaves the summary cache in place.
clear_dbKeepingCache ==
    /\ events_' = EmptyMap
    /\ api_keys_' = EmptyMap
    /\ app_names_' = EmptyMap
    /\ cache_' = cache_
    /\ logs_' = <<>>
    /\ emission_factors_' = <<>>
    /\ ret' = [op |-> "clear_db", at |-> now]
    /\ lastSum' = [u \in Users |-> NoSummary]
    /\ since' = [u \in Users |-> <<>>]
    /\ UNCHANGED now
    /\ UNCHANGED <<mu_, pc, db_>>

\* The cache after clear_db_events(): the function clears events_ only.
ClearDbEventsCache == cache_

clear_db_events ==
    /\ events_' = EmptyMap
    /\ cache_' = ClearDbEventsCache
    /\ ret' = [op |-> "clear_db_events", at |-> now]
    /\ lastSum' = [u \in Users |-> NoSummary]
    /\ since' = [u \in Users |-> <<>>]
    /\ UNCHANGED <<api_keys_, app_names_, logs_, emission_factors_, now>>
    /\ UNCHANGED <<mu_, pc, db_>>

clear_db ==
    /\ events_' = EmptyMap
    /\ api_keys_' = EmptyMap
    /\ app_names_' = EmptyMap
    /\ cache_' = EmptyMap
    /\ logs_' = <<>>
    /\ emission_factors_' = <<>>
    /\ ret' = [op |-> "clear_db", at |-> now]
    /\ lastSum' = [u \in Users |-> NoSummary]
    /\ since' = [u \in Users |-> <<>>]
    /\ UNCHANGED now
    /\ UNCHANGED <<mu_, pc, db_>>

get_events(user) == IF user \in DOMAIN events_ THEN events_[user] ELSE <<>>

\* logs_.push_back(rec)
append_log(rec) ==
    /\ logs_' = Append(logs_, rec)
    /\ ret' = [op |-> "append_log", at |-> now]
    /\ UNCHANGED <<events_, cache_, api_keys_, app_names_, emission_factors_, now,
                   lastSum, since, mu_, pc, db_>>

\* A variant of get_logs that returns the first limit records.
get_logsOldest(limit) ==
    IF Len(logs_) > limit THEN SubSeq(logs_, 1, limit) ELSE logs_

\* get_logs(limit): the last limit records, oldest first.
get_logs(limit) ==
    IF logs_ = <<>> THEN <<>>
    ELSE LET start == IF Len(logs_) > limit THEN Len(logs_) - limit ELSE 0
         IN SubSeq(logs_, start + 1, Len(logs_))

\* A call of get_logs(limit) on the store.
call_get_logs(limit) ==
    /\ ret' = [op |-> "get_logs", at |-> now, limit |-> limit, val |-> get_logs(limit)]
    /\ UNCHANGED <<events_, cache_, api_keys_, app_names_, logs_, emission_factors_, now,
                   lastSum, since, mu_, pc, db_>>

\* logs_.clear()
clear_logs ==
    /\ logs_' = <<>>
    /\ ret' = [op |-> "clear_logs", at |-> now]
    /\ UNCHANGED <<events_, cache_, api_keys_, app_names_, emission_factors_, now,
                   lastSum, since, mu_, pc, db_>>

\* The default of get_logs' limit parameter.
DefaultLogLimit == 100

\* The loop of lines 189-190 over the keys still to visit, in the map's
\* iteration order (unspecified; the order of CHOOSE here).
RECURSIVE ClientsLoop(_, _)
ClientsLoop(keys, out) ==
    IF keys = {} THEN out
    ELSE LET k == CHOOSE x \in keys : TRUE
         IN ClientsLoop(keys \ {k}, Append(out, k))

\* The vector get_clients() returns.
ClientsVector == ClientsLoop(DOMAIN events_, <<>>)

\* A variant of get_clients that lists the users with an API key as well.
get_clientsWithKeys == DOMAIN events_ \cup DOMAIN api_keys_

\* The user ids get_clients() returns, as a set.
get_clients == {ClientsVector[i] : i \in DOMAIN ClientsVector}

\* The number of events the store holds.
RECURSIVE CountEvents(_)
CountEvents(keys) ==
    IF keys = {} THEN 0
    ELSE LET k == CHOOSE x \in keys : TRUE
         IN Len(events_[k]) + CountEvents(keys \ {k})

----------------------------------------------------------------------------
(* InMemoryStore: the emission-factor table *)

\* The comparison of line 150 and of line 166.
SameKey(f, mode, fuel_type, vehicle_size) ==
    f.mode = mode /\ f.fuel_type = fuel_type /\ f.vehicle_size = vehicle_size

\* A variant of StoreFactorLoop that appends whatever the table holds.
RECURSIVE StoreFactorLoopAppending(_, _, _)
StoreFactorLoopAppending(vec, i, factor) == Append(vec, factor)

\* store_emission_factor, lines 148-156, from element i on: the first entry
\* with the factor's key is assigned the factor; with none, push_back.
RECURSIVE StoreFactorLoop(_, _, _)
StoreFactorLoop(vec, i, factor) ==
    IF i > Len(vec) THEN Append(vec, factor)
    ELSE IF SameKey(vec[i], factor.mode, factor.fuel_type, factor.vehicle_size)
    THEN [vec EXCEPT ![i] = factor]
    ELSE StoreFactorLoop(vec, i + 1, factor)

\* A variant of GetFactorLoop that returns the first entry with the mode.
RECURSIVE GetFactorLoopByMode(_, _, _, _, _)
GetFactorLoopByMode(vec, i, mode, fuel_type, vehicle_size) ==
    IF i > Len(vec) THEN NullOpt
    ELSE IF vec[i].mode = mode THEN Some(vec[i])
    ELSE GetFactorLoopByMode(vec, i + 1, mode, fuel_type, vehicle_size)

\* get_emission_factor, lines 164-169, from element i on.
RECURSIVE GetFactorLoop(_, _, _, _, _)
GetFactorLoop(vec, i, mode, fuel_type, vehicle_size) ==
    IF i > Len(vec) THEN NullOpt
    ELSE IF SameKey(vec[i], mode, fuel_type, vehicle_size) THEN Some(vec[i])
    ELSE GetFactorLoop(vec, i + 1, mode, fuel_type, vehicle_size)

\* What get_emission_factor(mode, fuel_type, vehicle_size) returns.
GetEmissionFactor(mode, fuel_type, vehicle_size) ==
    GetFactorLoop(emission_factors_, 1, mode, fuel_type, vehicle_size)

store_emission_factor(factor) ==
    /\ emission_factors_' = StoreFactorLoop(emission_factors_, 1, factor)
    /\ ret' = [op |-> "store_emission_factor", factor |-> factor, at |-> now]
    /\ UNCHANGED <<events_, cache_, api_keys_, app_names_, logs_, now, lastSum, since,
                   mu_, pc, db_>>

get_emission_factor(mode, fuel_type, vehicle_size) ==
    /\ ret' = [op |-> "get_emission_factor", at |-> now,
               key |-> <<mode, fuel_type, vehicle_size>>,
               val |-> GetEmissionFactor(mode, fuel_type, vehicle_size)]
    /\ UNCHANGED <<events_, cache_, api_keys_, app_names_, logs_, emission_factors_,
                   now, lastSum, since, mu_, pc, db_>>

get_all_emission_factors ==
    /\ ret' = [op |-> "get_all_emission_factors", at |-> now, val |-> emission_factors_]
    /\ UNCHANGED <<events_, cache_, api_keys_, app_names_, logs_, emission_factors_,
                   now, lastSum, since, mu_, pc, db_>>

clear_emission_factors ==
    /\ emission_factors_' = <<>>
    /\ ret' = [op |-> "clear_emission_factors", at |-> now]
    /\ UNCHANGED <<events_, cache_, api_keys_, app_names_, logs_, now, lastSum, since,
                   mu_, pc, db_>>

----------------------------------------------------------------------------
(* InMemoryStore called from several threads.  A call is a sequence of steps
   of its thread: the call itself (summarize and global_average_weekly read
   the clock here, before they lock), std::scoped_lock lk(mu_), the statements
   of the body one after the other, and the end of lk's scope with the return.
   The calls of the sections above are the same calls run from one thread,
   from lock to unlock in one step. *)

Threads == {"t1", "t2", "t3"}

Idle == [at |-> "idle"]

\* Operations that read the store and write nothing.
ReadOps == {"get_events", "get_clients", "global_average_weekly"}

\* A variant of scoped_lock for an add_event that takes no lock.
scoped_lockNotInAdd(t, op) ==
    IF op = "add_event" THEN [can |-> TRUE, mu |-> mu_]
    ELSE [can |-> mu_ = {}, mu |-> {t}]

\* A variant of scoped_lock for a summarize that takes no lock.
scoped_lockNotInSummarize(t, op) ==
    IF op = "summarize" THEN [can |-> TRUE, mu |-> mu_]
    ELSE [can |-> mu_ = {}, mu |-> {t}]

\* std::scoped_lock lk(mu_) at the top of every operation: thread t goes on
\* when nobody holds mu_, and holds it from then on.
scoped_lock(t, op) == [can |-> mu_ = {}, mu |-> {t}]

\* Thread t calls op; arg is the event or the user id, or "" for none.
Call(t, op, arg) ==
    /\ pc[t] = Idle
    /\ pc' = [pc EXCEPT ![t] = [at |-> "lock", op |-> op, arg |-> arg, now |-> now]]
    /\ UNCHANGED <<events_, cache_, api_keys_, app_names_, logs_, emission_factors_,
                   now, ret, lastSum, since, mu_, db_>>

Lock(t) ==
    /\ pc[t].at = "lock"
    /\ scoped_lock(t, pc[t].op).can
    /\ mu_' = scoped_lock(t, pc[t].op).mu
    /\ pc' = [pc EXCEPT ![t].at = "locked"]
    /\ UNCHANGED <<events_, cache_, api_keys_, app_names_, logs_, emission_factors_,
                   now, ret, lastSum, since, db_>>

\* add_event, line 221: events_[ev.user_id].push_back(ev)
AddPush(t) ==
    /\ pc[t].at = "locked" /\ pc[t].op = "add_event"
    /\ events_' = AddEventLog(pc[t].arg)
    /\ pc' = [pc EXCEPT ![t].at = "pushed"]
    /\ UNCHANGED <<cache_, api_keys_, app_names_, logs_, emission_factors_,
                   now, ret, lastSum, since, mu_, db_>>

\* add_event, line 223: cache_.erase(ev.user_id)
AddErase(t) ==
    /\ pc[t].at = "pushed"
    /\ cache_' = AddEventCache(pc[t].arg)
    /\ pc' = [pc EXCEPT ![t].at = "unlock"]
    /\ UNCHANGED <<events_, api_keys_, app_names_, logs_, emission_factors_,
                   now, ret, lastSum, since, mu_, db_>>

\* summarize, lines 243-263: the cached summary or zeros are returned at once;
\* else the log is folded into s, which line 265 has yet to store.
SumRead(t) ==
    /\ pc[t].at = "locked" /\ pc[t].op = "summarize"
    /\ pc' = [pc EXCEPT ![t] =
                 [at |-> IF pc[t].arg \in DOMAIN cache_ \/ pc[t].arg \notin DOMAIN events_
                         THEN "unlock" ELSE "folded",
                  op |-> "summarize", arg |-> pc[t].arg, now |-> pc[t].now,
                  val |-> SummarizeValue(pc[t].arg, pc[t].now)]]
    /\ UNCHANGED <<events_, cache_, api_keys_, app_names_, logs_, emission_factors_,
                   now, ret, lastSum, since, mu_, db_>>

\* summarize, line 265: cache_[user] = s
SumInstall(t) ==
    /\ pc[t].at = "folded"
    /\ cache_' = MapPut(cache_, pc[t].arg, pc[t].val)
    /\ pc' = [pc EXCEPT ![t].at = "unlock"]
    /\ UNCHANGED <<events_, api_keys_, app_names_, logs_, emission_factors_,
                   now, ret, lastSum, since, mu_, db_>>

\* get_events, get_clients and global_average_weekly: the value is read.
Read(t) ==
    /\ pc[t].at = "locked" /\ pc[t].op \in ReadOps
    /\ pc' = [pc EXCEPT ![t] =
                 [at |-> "unlock", op |-> pc[t].op, arg |-> pc[t].arg, now |-> pc[t].now,
                  val |-> IF pc[t].op = "get_events" THEN get_events(pc[t].arg)
                          ELSE IF pc[t].op = "get_clients" THEN get_clients
                          ELSE GlobalAverageValue(pc[t].now)]]
    /\ UNCHANGED <<events_, cache_, api_keys_, app_names_, logs_, emission_factors_,
                   now, ret, lastSum, since, mu_, db_>>

\* A variant of get_client_dataLock in which get_client_data takes mu_
\* itself before it calls get_events.
get_client_dataLocking(t) == [can |-> mu_ = {}, mu |-> {t}]

\* get_client_data, lines 194-197: the function has no scoped_lock of its
\* own, so thread t goes on at once and mu_ stays as it is.
get_client_dataLock(t) == [can |-> TRUE, mu |-> mu_]

\* Thread t calls get_client_data(client_id).
CallClientData(t, client_id) ==
    /\ pc[t] = Idle
    /\ pc' = [pc EXCEPT ![t] = [at |-> "outer", op |-> "get_client_data", arg |-> client_id,
                                now |-> now]]
    /\ UNCHANGED <<events_, cache_, api_keys_, app_names_, logs_, emission_factors_,
                   now, ret, lastSum, since, mu_, db_>>

\* get_client_data, line 196: return get_events(client_id), a call of
\* get_events from the same thread.
ClientData(t) ==
    /\ pc[t].at = "outer"
    /\ get_client_dataLock(t).can
    /\ mu_' = get_client_dataLock(t).mu
    /\ pc' = [pc EXCEPT ![t] = [at |-> "lock", op |-> "get_events", arg |-> pc[t].arg,
                                now |-> pc[t].now, via |-> "get_client_data"]]
    /\ UNCHANGED <<events_, cache_, api_keys_, app_names_, logs_, emission_factors_,
                   now, ret, lastSum, since, db_>>

\* get_logs, lines 132-135: the empty result is returned at once, else the
\* last records are copied; both paths leave lk's scope.
LogsRead(t) ==
    /\ pc[t].at = "locked" /\ pc[t].op = "get_logs"
    /\ pc' = [pc EXCEPT ![t] = [at |-> "unlock", op |-> "get_logs", arg |-> pc[t].arg,
                                now |-> pc[t].now, val |-> get_logs(pc[t].arg)]]
    /\ UNCHANGED <<events_, cache_, api_keys_, app_names_, logs_, emission_factors_,
                   now, ret, lastSum, since, mu_, db_>>

\* store_emission_factor, lines 148-156: the entry with the key is replaced
\* and the function returns from inside the loop, or the factor is appended.
FactorWrite(t) ==
    /\ pc[t].at = "locked" /\ pc[t].op = "store_emission_factor"
    /\ emission_factors_' = StoreFactorLoop(emission_factors_, 1, pc[t].arg)
    /\ pc' = [pc EXCEPT ![t].at = "unlock"]
    /\ UNCHANGED <<events_, cache_, api_keys_, app_names_, logs_,
                   now, ret, lastSum, since, mu_, db_>>

\* The end of lk's scope and the return.
Unlock(t) ==
    /\ pc[t].at = "unlock"
    /\ mu_' = mu_ \ {t}
    /\ pc' = [pc EXCEPT ![t] = Idle]
    /\ UNCHANGED <<events_, cache_, api_keys_, app_names_, logs_, emission_factors_,
                   now, ret, lastSum, since, db_>>

----------------------------------------------------------------------------
(* MongoStore (include/mongo_store.hpp): the events collection is the
   sequence of its documents in insertion order *)

\* The document add_event inserts: user_id, mode, distance_km and ts.
MongoEventDoc(ev) ==
    [user_id |-> ev.user_id, mode |-> ev.mode, distance_km |-> ev.distance_km, ts |-> ev.ts]

\* MongoStore::add_event: coll.insert_one(...)
MongoAddEvent(ev) == [db_ EXCEPT !.events = Append(@, MongoEventDoc(ev))]

\* MongoStore::clear_db_events: coll.delete_many({})
MongoClearDbEvents == [db_ EXCEPT !.events = <<>>]

\* opts.sort({ts: 1}): ascending ts, documents with equal ts in the order of docs.
RECURSIVE SortByTs(_)
SortByTs(docs) ==
    IF docs = <<>> THEN <<>>
    ELSE LET lo == CHOOSE i \in DOMAIN docs :
                       \A j \in DOMAIN docs : docs[i].ts < docs[j].ts \/ (docs[i].ts = docs[j].ts /\ i <= j)
         IN <<docs[lo]>> \o SortByTs(SubSeq(docs, 1, lo - 1) \o SubSeq(docs, lo + 1, Len(docs)))

\* MongoStore::get_events: the user's documents sorted by ts, each read into
\* a default-constructed TransitEvent.
MongoGetEvents(user) ==
    LET IsUsers(d) == d.user_id = user
        cursor == SortByTs(SelectSeq(db_.events, IsUsers))
    IN [i \in DOMAIN cursor |->
           MakeEvent(user, cursor[i].mode, "", "", 1, cursor[i].distance_km, cursor[i].ts)]

\* MongoStore::summarize with the clock at clk: the fold of get_events(user).
MongoSummarize(user, clk) ==
    SummarizeLoop(MongoGetEvents(user), 1, ZeroSummary, clk - WEEK, clk - MONTH)

\* The loop of lines 223-229: user_week[user] += emission_factor_for(mode) * dist.
RECURSIVE MongoUserWeek(_, _)
MongoUserWeek(cursor, user_week) ==
    IF cursor = <<>> THEN user_week
    ELSE LET d == Head(cursor)
             old == IF d.user_id \in DOMAIN user_week THEN user_week[d.user_id] ELSE 0
         IN MongoUserWeek(Tail(cursor),
                MapPut(user_week, d.user_id, old + emission_factor_for(d.mode) * d.distance_km))

\* The loop of lines 234-235: the sum of the values of user_week.
RECURSIVE MongoTot(_, _)
MongoTot(user_week, keys) ==
    IF keys = {} THEN 0
    ELSE LET k == CHOOSE x \in keys : TRUE
         IN user_week[k] + MongoTot(user_week, keys \ {k})

\* MongoStore::global_average_weekly with the clock at clk, as a fraction.
MongoGlobalAverage(clk) ==
    LET InWeek(d) == d.ts >= clk - WEEK
        user_week == MongoUserWeek(SelectSeq(db_.events, InWeek), EmptyMap)
    IN IF DOMAIN user_week = {} THEN [num |-> 0, den |-> 1]
       ELSE [num |-> MongoTot(user_week, DOMAIN user_week),
             den |-> Cardinality(DOMAIN user_week)]

----------------------------------------------------------------------------
(* The same call made on an InMemoryStore and on a MongoStore *)

both_add_event(ev) ==
    /\ events_' = AddEventLog(ev)
    /\ cache_' = AddEventCache(ev)
    /\ db_' = MongoAddEvent(ev)
    /\ ret' = [op |-> "add_event", user |-> ev.user_id, ev |-> ev, at |-> now]
    /\ UNCHANGED <<api_keys_, app_names_, logs_, emission_factors_, now, lastSum, since, mu_, pc>>

both_clear_db_events ==
    /\ events_' = EmptyMap
    /\ cache_' = ClearDbEventsCache
    /\ db_' = MongoClearDbEvents
    /\ ret' = [op |-> "clear_db_events", at |-> now]
    /\ UNCHANGED <<api_keys_, app_names_, logs_, emission_factors_, now, lastSum, since, mu_, pc>>

both_summarize(user) ==
    /\ events_' = SummarizeEvents(user)
    /\ cache_' = SummarizeCache(user, now)
    /\ ret' = [op |-> "summarize", user |-> user, at |-> now,
               val |-> SummarizeValue(user, now), mongo |-> MongoSummarize(user, now)]
    /\ UNCHANGED <<api_keys_, app_names_, logs_, emission_factors_, now, lastSum, since,
                   mu_, pc, db_>>

both_global_average_weekly ==
    /\ ret' = [op |-> "global_average_weekly", at |-> now,
               val |-> GlobalAverageValue(now), mongo |-> MongoGlobalAverage(now)]
    /\ UNCHANGED <<events_, cache_, api_keys_, app_names_, logs_, emission_factors_,
                   now, lastSum, since, mu_, pc, db_>>

----------------------------------------------------------------------------
(* TransitEvent::TransitEvent (src/transit_validator.cpp) *)

InSeq(x, sq) == \E i \in DOMAIN sq : sq[i] = x

\* A variant of TransitEvent that accepts a mode whatever its case.
TransitEventAnyCase(user_id_, mode_, distance_km_, ts_, clk) ==
    IF user_id_ = "" THEN [ok |-> FALSE, what |-> "user_id must not be empty."]
    ELSE IF distance_km_ < 0
    THEN [ok |-> FALSE, what |-> "Negative value for distance_km is not allowed."]
    ELSE IF ~(mode_ \in {"taxi", "car", "bus", "subway", "train", "bike", "walk",
                         "Taxi", "Car", "Bus", "Subway", "Train", "Bike", "Walk"})
    THEN [ok |-> FALSE, what |-> "invalid mode"]
    ELSE [ok |-> TRUE,
          ev |-> MakeEvent(user_id_, mode_, "", "", 1, distance_km_,
                           IF ts_ = 0 THEN clk ELSE ts_)]

\* A variant of TransitEvent that stores ts_ as given, 0 included.
TransitEventTsKept(user_id_, mode_, distance_km_, ts_, clk) ==
    IF user_id_ = "" THEN [ok |-> FALSE, what |-> "user_id must not be empty."]
    ELSE IF distance_km_ < 0
    THEN [ok |-> FALSE, what |-> "Negative value for distance_km is not allowed."]
    ELSE IF ~InSeq(mode_, kAllowedTransitModes) THEN [ok |-> FALSE, what |-> "invalid mode"]
    ELSE [ok |-> TRUE, ev |-> MakeEvent(user_id_, mode_, "", "", 1, distance_km_, ts_)]

\* The validating constructor with the clock at clk: [ok |-> FALSE, what] for
\* a throw of std::runtime_error(what), else the event built.
TransitEvent(user_id_, mode_, distance_km_, ts_, clk) ==
    IF user_id_ = "" THEN [ok |-> FALSE, what |-> "user_id must not be empty."]
    ELSE IF distance_km_ < 0
    THEN [ok |-> FALSE, what |-> "Negative value for distance_km is not allowed."]
    ELSE IF ~InSeq(mode_, kAllowedTransitModes) THEN [ok |-> FALSE, what |-> "invalid mode"]
    ELSE [ok |-> TRUE,
          ev |-> MakeEvent(user_id_, mode_, "", "", 1, distance_km_,
                           IF ts_ = 0 THEN clk ELSE ts_)]

\* A direct construction, as the unit tests make it.
construct(user_id_, mode_, distance_km_, ts_) ==
    /\ ret' = [op |-> "TransitEvent", at |-> now,
               args |-> <<user_id_, mode_, distance_km_, ts_>>,
               res |-> TransitEvent(user_id_, mode_, distance_km_, ts_, now)]
    /\ UNCHANGED <<events_, cache_, api_keys_, app_names_, logs_, emission_factors_,
                   now, lastSum, since>>
    /\ UNCHANGED <<mu_, pc, db_>>

----------------------------------------------------------------------------
(* API keys and the request log of InMemoryStore *)

\* hash_plain: std::hash of the key printed in hex, taken to be injective.
hash_plain(key) == <<"hash", key>>

set_api_key(user, key, app_name) ==
    /\ api_keys_' = MapPut(api_keys_, user, hash_plain(key))
    /\ app_names_' = IF app_name # "" THEN MapPut(app_names_, user, app_name) ELSE app_names_
    /\ ret' = [op |-> "set_api_key", user |-> user, at |-> now]
    /\ UNCHANGED <<events_, cache_, logs_, emission_factors_, now, lastSum, since>>
    /\ UNCHANGED <<mu_, pc, db_>>

\* A variant of check_api_key that accepts every key of a user who has one.
check_api_keyAnyKey(user, key) == user \in DOMAIN api_keys_

check_api_key(user, key) ==
    IF user \notin DOMAIN api_keys_ THEN FALSE
    ELSE hash_plain(key) = api_keys_[user]

ApiLogRecord(ts, method, path, status, duration_ms, client_ip, user_id) ==
    [ts |-> ts, method |-> method, path |-> path, status |-> status,
     duration_ms |-> duration_ms, client_ip |-> client_ip, user_id |-> user_id]

----------------------------------------------------------------------------
(* POST /users/{id}/transit (src/api.cpp) *)

\* JSON values and request bodies.  A body is text that does not parse, a
\* JSON value that is no object, or an object with some of the three keys.
JStr(v) == [t |-> "string", v |-> v]

JNum(v) == [t |-> "number", v |-> v]

InvalidJson == [json |-> "invalid"]

JArray == [json |-> "array"]

JObject(fields) == [json |-> "object", fields |-> fields]

NoHeader == [header |-> FALSE]

Header(v) == [header |-> TRUE, value |-> v]

\* check_auth: the X-API-Key header must be there and be the user's key.
\* A variant of check_auth that accepts every request with an X-API-Key
\* header, whatever the key.
check_authAnyKey(req, user_id) == req.api_key.header

check_auth(req, user_id) ==
    IF ~req.api_key.header THEN FALSE
    ELSE check_api_key(user_id, req.api_key.value)

\* body.contains(key): false for a value that is no object.
Contains(body, key) == body.json = "object" /\ key \in DOMAIN body.fields

\* The try block of lines 162-184 for a parsed body: [status |-> 400, error]
\* for the early return and for either catch, else the event to add.
TransitTry(user_id, body, clk) ==
    IF ~Contains(body, "mode") \/ ~Contains(body, "distance_km")
    THEN [status |-> 400, error |-> "missing_fields"]
    ELSE IF \/ body.fields["mode"].t # "string"
            \/ body.fields["distance_km"].t # "number"
            \/ (Contains(body, "ts") /\ body.fields["ts"].t # "number")
    THEN [status |-> 400, error |-> "invalid JSON payload"]
    ELSE LET ts == IF Contains(body, "ts") THEN body.fields["ts"].v ELSE clk
             made == TransitEvent(user_id, body.fields["mode"].v,
                                  body.fields["distance_km"].v, ts, clk)
         IN IF made.ok THEN [status |-> 201, ev |-> made.ev]
            ELSE [status |-> 400, error |-> made.what]

\* The handler's answer: 401 before the body is looked at, 400 for a body
\* that does not parse, else what the try block gives.
TransitAnswer(req, clk) ==
    IF ~check_auth(req, req.user_id) THEN [status |-> 401, error |-> "unauthorized"]
    ELSE IF req.body.json = "invalid" THEN [status |-> 400, error |-> "invalid_json"]
    ELSE TransitTry(req.user_id, req.body, clk)

\* The handler, run as one step at one clock value: on 201 the event is added
\* (add_event's push_back and cache erase) and the request is logged.
post_transit(req) ==
    LET a == TransitAnswer(req, now)
    IN /\ ret' = [op |-> "POST transit", req |-> req, at |-> now, status |-> a.status]
       /\ IF a.status = 201
          THEN /\ events_' = AddEventLog(a.ev)
               /\ cache_' = AddEventCache(a.ev)
               /\ since' = [since EXCEPT ![a.ev.user_id] = Append(@, a.ev)]
               /\ logs_' = Append(logs_,
                              ApiLogRecord(now, "POST", <<"/users", req.user_id, "transit">>,
                                           201, 0, "unknown", req.user_id))
          ELSE UNCHANGED <<events_, cache_, since, logs_>>
       /\ UNCHANGED <<api_keys_, app_names_, emission_factors_, now, lastSum>>
       /\ UNCHANGED <<mu_, pc, db_>>

----------------------------------------------------------------------------
(* GET /users/{id}/lifetime-footprint, /suggestions, /analytics (src/api.cpp) *)

\* The answer of the three handlers: 401 before the store is read, else 200
\* with the summary of the user.
GetAnswer(req, clk) ==
    IF ~check_auth(req, req.user_id) THEN [status |-> 401, error |-> "unauthorized"]
    ELSE [status |-> 200, summary |-> SummarizeValue(req.user_id, clk)]

\* One of the three handlers, run as one step at one clock value: on 200
\* the store's summarize(user_id) has run and the request is logged.
get_user(endpoint, req) ==
    LET a == GetAnswer(req, now)
    IN /\ ret' = [op |-> "GET", endpoint |-> endpoint, req |-> req, at |-> now,
                  status |-> a.status]
       /\ IF a.status = 200
          THEN /\ events_' = SummarizeEvents(req.user_id)
               /\ cache_' = SummarizeCache(req.user_id, now)
               /\ lastSum' = [lastSum EXCEPT ![req.user_id] = a.summary]
               /\ since' = [since EXCEPT ![req.user_id] = <<>>]
               /\ logs_' = Append(logs_,
                              ApiLogRecord(now, "GET", <<"/users", req.user_id, endpoint>>,
                                           200, 0, "unknown", req.user_id))
          ELSE UNCHANGED <<events_, cache_, lastSum, since, logs_>>
       /\ UNCHANGED <<api_keys_, app_names_, emission_factors_, now, mu_, pc, db_>>

\* The answer of GET /users/{id}/analytics: 401 before the store is read,
\* else 200 with the week total of summarize(user_id), the double of
\* global_average_weekly() and their comparison.
AnalyticsAnswer(req, clk) ==
    IF ~check_auth(req, req.user_id) THEN [status |-> 401, error |-> "unauthorized"]
    ELSE LET s == SummarizeValue(req.user_id, clk)
             peer_avg == GlobalAverageValue(clk)
         IN [status |-> 200,
             this_week_kg_co2 |-> s.week_kg_co2,
             peer_week_avg_kg_co2 |-> peer_avg,
             above_peer_avg |-> s.week_kg_co2 * peer_avg.den > peer_avg.num]

\* The analytics handler with its response body, run as one step at one
\* clock value: on 200 summarize(user_id) has run and the request is logged.
get_analytics(req) ==
    LET a == AnalyticsAnswer(req, now)
    IN /\ ret' = [op |-> "GET analytics", req |-> req, at |-> now, status |-> a.status,
                  body |-> a]
       /\ IF a.status = 200
          THEN /\ events_' = SummarizeEvents(req.user_id)
               /\ cache_' = SummarizeCache(req.user_id, now)
               /\ lastSum' = [lastSum EXCEPT ![req.user_id] = SummarizeValue(req.user_id, now)]
               /\ since' = [since EXCEPT ![req.user_id] = <<>>]
               /\ logs_' = Append(logs_,
                              ApiLogRecord(now, "GET", <<"/users", req.user_id, "analytics">>,
                                           200, 0, "unknown", req.user_id))
          ELSE UNCHANGED <<events_, cache_, lastSum, since, logs_>>
       /\ UNCHANGED <<api_keys_, app_names_, emission_factors_, now, mu_, pc, db_>>

----------------------------------------------------------------------------
(* POST /users/register (src/api.cpp) *)

\* The answer of the handler for a body, with user_id and api_key the
\* strings made from the draws of std::random_device: 400 for text that does
\* not parse and for a body without a string app_name, else 201.
RegisterAnswer(body, user_id, api_key) ==
    IF body.json = "invalid" THEN [status |-> 400, error |-> "invalid_json"]
    ELSE IF ~Contains(body, "app_name") \/ body.fields["app_name"].t # "string"
    THEN [status |-> 400, error |-> "missing_app_name"]
    ELSE [status |-> 201, user_id |-> user_id, api_key |-> api_key,
          app_name |-> body.fields["app_name"].v]

\* The handler, run as one step at one clock value: on 201 the key is set
\* with set_api_key(user_id, api_key, app_name) and the request is logged.
register(body, user_id, api_key) ==
    LET a == RegisterAnswer(body, user_id, api_key)
    IN /\ ret' = [op |-> "POST register", at |-> now, body |-> body, status |-> a.status,
                  answer |-> a]
       /\ IF a.status = 201
          THEN /\ api_keys_' = MapPut(api_keys_, user_id, hash_plain(api_key))
               /\ app_names_' = IF a.app_name # "" THEN MapPut(app_names_, user_id, a.app_name)
                                ELSE app_names_
               /\ logs_' = Append(logs_,
                              ApiLogRecord(now, "POST", <<"/users", "register">>, 201, 0,
                                           "unknown", user_id))
          ELSE UNCHANGED <<api_keys_, app_names_, logs_>>
       /\ UNCHANGED <<events_, cache_, emission_factors_, now, lastSum, since, mu_, pc, db_>>

----------------------------------------------------------------------------
(* GET /health and the /admin routes (src/api.cpp) *)

\* A variant of the health handler that answers without logging.
healthUnlogged ==
    /\ ret' = [op |-> "GET /health", at |-> now, status |-> 200]
    /\ UNCHANGED <<events_, cache_, api_keys_, app_names_, logs_, emission_factors_, now,
                   lastSum, since, mu_, pc, db_>>

\* GET /health: always 200, logged with an empty user id.
health ==
    /\ ret' = [op |-> "GET /health", at |-> now, status |-> 200]
    /\ logs_' = Append(logs_, ApiLogRecord(now, "GET", <<"/health">>, 200, 0, "unknown", ""))
    /\ UNCHANGED <<events_, cache_, api_keys_, app_names_, emission_factors_, now,
                   lastSum, since, mu_, pc, db_>>

\* The Authorization header of a request: absent, or a value that starts
\* with "Bearer " or does not, followed by a token.
Bearer(token) == [header |-> TRUE, bearer |-> TRUE, token |-> token]

NotBearer(token) == [header |-> TRUE, bearer |-> FALSE, token |-> token]

\* The value of getenv("ADMIN_API_KEY") when the request is handled.
EnvUnset == [set |-> FALSE]

EnvKey(v) == [set |-> TRUE, value |-> v]

check_admin(authorization, env_key) ==
    IF ~authorization.header THEN FALSE
    ELSE IF ~authorization.bearer THEN FALSE
    ELSE IF ~env_key.set THEN FALSE
    ELSE authorization.token = env_key.value

\* The limit the admin route passes to get_logs.
AdminLogLimit == 1000

\* GET /admin/logs: 401, or 200 with get_logs(1000); nothing is logged.
admin_get_logs(authorization, env_key) ==
    /\ ret' = IF ~check_admin(authorization, env_key)
              THEN [op |-> "GET /admin/logs", at |-> now, status |-> 401]
              ELSE [op |-> "GET /admin/logs", at |-> now, status |-> 200,
                    body |-> get_logs(AdminLogLimit)]
    /\ UNCHANGED <<events_, cache_, api_keys_, app_names_, logs_, emission_factors_, now,
                   lastSum, since, mu_, pc, db_>>

\* DELETE /admin/logs: 401, or 200 after clear_logs().
admin_delete_logs(authorization, env_key) ==
    LET ok == check_admin(authorization, env_key)
    IN /\ ret' = [op |-> "DELETE /admin/logs", at |-> now,
                  status |-> IF ok THEN 200 ELSE 401]
       /\ logs_' = IF ok THEN <<>> ELSE logs_
       /\ UNCHANGED <<events_, cache_, api_keys_, app_names_, emission_factors_, now,
                      lastSum, since, mu_, pc, db_>>

\* GET /admin/clients: 401, or 200 with get_clients().
admin_clients(authorization, env_key) ==
    /\ ret' = IF ~check_admin(authorization, env_key)
              THEN [op |-> "GET /admin/clients", at |-> now, status |-> 401]
              ELSE [op |-> "GET /admin/clients", at |-> now, status |-> 200,
                    body |-> get_clients]
    /\ UNCHANGED <<events_, cache_, api_keys_, app_names_, logs_, emission_factors_, now,
                   lastSum, since, mu_, pc, db_>>

\* GET /admin/clients/{id}/data: 401, or 200 with get_client_data(id).
admin_client_data(client_id, authorization, env_key) ==
    /\ ret' = IF ~check_admin(authorization, env_key)
              THEN [op |-> "GET /admin/clients/data", at |-> now, status |-> 401]
              ELSE [op |-> "GET /admin/clients/data", at |-> now, status |-> 200,
                    body |-> get_events(client_id)]
    /\ UNCHANGED <<events_, cache_, api_keys_, app_names_, logs_, emission_factors_, now,
                   lastSum, since, mu_, pc, db_>>

\* GET /admin/clear-db-events: 401, or 200 after clear_db_events().
admin_clear_db_events(authorization, env_key) ==
    LET ok == check_admin(authorization, env_key)
    IN /\ ret' = [op |-> "GET /admin/clear-db-events", at |-> now,
                  status |-> IF ok THEN 200 ELSE 401]
       /\ events_' = IF ok THEN EmptyMap ELSE events_
       /\ cache_' = IF ok THEN ClearDbEventsCache ELSE cache_
       /\ lastSum' = IF ok THEN [u \in Users |-> NoSummary] ELSE lastSum
       /\ since' = IF ok THEN [u \in Users |-> <<>>] ELSE since
       /\ UNCHANGED <<api_keys_, app_names_, logs_, emission_factors_, now, mu_, pc, db_>>

\* GET /admin/clear-db: 401, or 200 after clear_db().
admin_clear_db(authorization, env_key) ==
    LET ok == check_admin(authorization, env_key)
    IN /\ ret' = [op |-> "GET /admin/clear-db", at |-> now,
                  status |-> IF ok THEN 200 ELSE 401]
       /\ events_' = IF ok THEN EmptyMap ELSE events_
       /\ api_keys_' = IF ok THEN EmptyMap ELSE api_keys_
       /\ app_names_' = IF ok THEN EmptyMap ELSE app_names_
       /\ cache_' = IF ok THEN EmptyMap ELSE cache_
       /\ logs_' = IF ok THEN <<>> ELSE logs_
       /\ emission_factors_' = IF ok THEN <<>> ELSE emission_factors_
       /\ lastSum' = IF ok THEN [u \in Users |-> NoSummary] ELSE lastSum
       /\ since' = IF ok THEN [u \in Users |-> <<>>] ELSE since
       /\ UNCHANGED <<now, mu_, pc, db_>>

----------------------------------------------------------------------------
(* make_transit_event_from_json (src/transit_logic.cpp) *)

\* The helper for a parsed body, with now_epoch the caller's reading of the
\* clock (0: the helper reads the clock itself, at clk): a throw, or the event.
make_transit_event_from_json(user_id, body, now_epoch, clk) ==
    IF user_id = "" THEN [ok |-> FALSE, what |-> "user_id must not be empty."]
    ELSE IF ~Contains(body, "mode") \/ ~Contains(body, "distance_km")
    THEN [ok |-> FALSE, what |-> "missing_fields"]
    ELSE IF \/ body.fields["mode"].t # "string"
            \/ body.fields["distance_km"].t # "number"
            \/ (Contains(body, "ts") /\ body.fields["ts"].t # "number")
    THEN [ok |-> FALSE, what |-> "json type_error"]
    ELSE LET ts == IF Contains(body, "ts") THEN body.fields["ts"].v
                   ELSE IF now_epoch = 0 THEN clk ELSE now_epoch
         IN TransitEvent(user_id, body.fields["mode"].v, body.fields["distance_km"].v, ts, clk)

\* A direct call of the helper, as the unit tests make it.
make_from_json(user_id, body, now_epoch) ==
    /\ ret' = [op |-> "make_transit_event_from_json", at |-> now,
               user |-> user_id, body |-> body, now_epoch |-> now_epoch,
               res |-> make_transit_event_from_json(user_id, body, now_epoch, now)]
    /\ UNCHANGED <<events_, cache_, api_keys_, app_names_, logs_, emission_factors_,
                   now, lastSum, since>>
    /\ UNCHANGED <<mu_, pc, db_>>

----------------------------------------------------------------------------
(* POST /users/{id}/transit served from a MongoStore *)

\* MongoStore::set_api_key: the upsert sets api_key_hash and app_name.
MongoSetApiKey(user, key, app_name) ==
    [db_ EXCEPT !.api_keys =
        MapPut(@, user, [api_key_hash |-> hash_plain(key), app_name |-> app_name])]

\* MongoStore::check_api_key
MongoCheckApiKey(user, key) ==
    IF user \notin DOMAIN db_.api_keys THEN FALSE
    ELSE hash_plain(key) = db_.api_keys[user].api_key_hash

\* MongoStore::append_log: coll.insert_one(...)
MongoAppendLog(rec) == [db_ EXCEPT !.api_logs = Append(@, rec)]

mongo_set_api_key(user, key, app_name) ==
    /\ db_' = MongoSetApiKey(user, key, app_name)
    /\ ret' = [op |-> "set_api_key", user |-> user, at |-> now]
    /\ UNCHANGED <<events_, cache_, api_keys_, app_names_, logs_, emission_factors_,
                   now, lastSum, since, mu_, pc>>

\* The handler's answer when the store is a MongoStore whose insert_one, with
\* thrown = TRUE, throws an exception derived from std::runtime_error: the
\* call store.add_event(ev) is inside the try block (line 178), so the catch
\* of lines 180-184 turns the exception into the 400 answer.
MongoTransitAnswer(req, clk, thrown) ==
    IF ~(req.api_key.header /\ MongoCheckApiKey(req.user_id, req.api_key.value))
    THEN [status |-> 401, error |-> "unauthorized"]
    ELSE IF req.body.json = "invalid" THEN [status |-> 400, error |-> "invalid_json"]
    ELSE LET a == TransitTry(req.user_id, req.body, clk)
         IN IF a.status = 201 /\ thrown THEN [status |-> 400, error |-> "backend unavailable"]
            ELSE a

\* The handler on a MongoStore, run as one step at one clock value.
mongo_post_transit(req, thrown) ==
    LET a == MongoTransitAnswer(req, now, thrown)
    IN /\ ret' = [op |-> "POST transit", req |-> req, at |-> now, status |-> a.status,
                  thrown |-> thrown,
                  validated |-> /\ req.body.json # "invalid"
                                /\ TransitTry(req.user_id, req.body, now).status = 201]
       /\ db_' = IF a.status = 201
                 THEN [db_ EXCEPT
                         !.events = Append(@, MongoEventDoc(a.ev)),
                         !.api_logs = Append(@, ApiLogRecord(now, "POST",
                                          <<"/users", req.user_id, "transit">>,
                                          201, 0, "unknown", req.user_id))]
                 ELSE db_
       /\ UNCHANGED <<events_, cache_, api_keys_, app_names_, logs_, emission_factors_,
                      now, lastSum, since, mu_, pc>>

----------------------------------------------------------------------------
(* EmissionDataLoader (src/emission_data_loader.cpp) *)

\* Text is a sequence of symbols: ",", "\n", " ", and words.  A word stands
\* for a run of characters with no comma, line end or blank in it: either a
\* decimal numeral or a run of letters.  The strings the loaders produce are
\* such sequences too, <<>> being the empty string.
Whitespace == {" ", "\t", "\r", "\n"}

\* The decimal numerals of the texts.
NumberWords == {"0.167", "0.073"}

\* The value of a numeral, in 1/1000 kg per km.
WordValue(w) == IF w = "0.167" THEN 167 ELSE 73

\* std::stod: blanks are skipped, then the longest numeral is read and what
\* follows it is ignored; with no numeral there it throws.
stod(str) ==
    LET rest == {i \in DOMAIN str : str[i] \notin Whitespace}
        first == CHOOSE i \in rest : \A j \in rest : i <= j
    IN IF rest = {} \/ str[first] \notin NumberWords
       THEN [ok |-> FALSE]
       ELSE [ok |-> TRUE, value |-> WordValue(str[first])]

\* std::istringstream over s: the characters not yet read, and whether the
\* stream is still good (neither eofbit nor failbit set).
istringstream(s) == [buf |-> s, good |-> TRUE]

\* std::getline(is, str, delim).  A stream that is not good fails at once.
\* Otherwise the characters up to the first delim are extracted and the delim
\* is dropped; with no delim left the rest is extracted, the end of the
\* stream is hit, and the call fails when nothing at all was extracted.
getline(is, delim) ==
    LET hits == {i \in DOMAIN is.buf : is.buf[i] = delim}
        i == CHOOSE h \in hits : \A j \in hits : h <= j
    IN IF ~is.good THEN [ok |-> FALSE, str |-> <<>>, is |-> is]
       ELSE IF hits # {}
       THEN [ok |-> TRUE, str |-> SubSeq(is.buf, 1, i - 1),
             is |-> [buf |-> SubSeq(is.buf, i + 1, Len(is.buf)), good |-> TRUE]]
       ELSE [ok |-> Len(is.buf) > 0, str |-> is.buf,
             is |-> [buf |-> <<>>, good |-> FALSE]]

\* The trim lambda of load_from_csv.
trim(s) ==
    LET keep == {i \in DOMAIN s : s[i] \notin Whitespace}
        lo == CHOOSE i \in keep : \A j \in keep : i <= j
        hi == CHOOSE i \in keep : \A j \in keep : j <= i
    IN IF keep = {} THEN <<>> ELSE SubSeq(s, lo, hi)

\* One data row of load_from_csv: five getline calls on the row, the trims,
\* and the conversion of the fourth field.
CsvRow(line) ==
    LET g1 == getline(istringstream(line), ",")
        g2 == getline(g1.is, ",")
        g3 == getline(g2.is, ",")
        g4 == getline(g3.is, ",")
        g5 == getline(g4.is, ",")
        kg == stod(trim(g4.str))
    IN IF ~(g1.ok /\ g2.ok /\ g3.ok /\ g4.ok /\ g5.ok)
       THEN [ok |-> FALSE, what |-> "CSV format error"]
       ELSE IF ~kg.ok
       THEN [ok |-> FALSE, what |-> "Failed to parse kg_co2_per_km"]
       ELSE [ok |-> TRUE,
             factor |-> EmissionFactor(trim(g1.str), trim(g2.str), trim(g3.str),
                                       kg.value, trim(g5.str), 0)]

\* The while loop of load_from_csv over the lines after the header.
RECURSIVE CsvLoop(_, _)
CsvLoop(is, factors) ==
    LET g == getline(is, "\n")
        r == CsvRow(g.str)
    IN IF ~g.ok THEN [ok |-> TRUE, factors |-> factors]
       ELSE IF g.str = <<>> THEN CsvLoop(g.is, factors)
       ELSE IF ~r.ok THEN [ok |-> FALSE, what |-> r.what]
       ELSE CsvLoop(g.is, Append(factors, r.factor))

\* EmissionDataLoader::load_from_csv: the vector, or the exception thrown.
load_from_csv(csv_str) ==
    LET h == getline(istringstream(csv_str), "\n")
    IN IF ~h.ok THEN [ok |-> FALSE, what |-> "CSV is empty"]
       ELSE CsvLoop(h.is, <<>>)

\* A JSON array with its items.
JArrayOf(items) == [json |-> "array", items |-> items]

\* item.at(key).get<T>(): throws when the key is missing or holds another type.
JsonAt(item, key, type) ==
    IF key \notin DOMAIN item.fields \/ item.fields[key].t # type
    THEN [ok |-> FALSE]
    ELSE [ok |-> TRUE, v |-> item.fields[key].v]

\* item.value(key, default): the default when the key is missing; throws
\* when the key holds another type.
JsonValue(item, key, type, default) ==
    IF key \notin DOMAIN item.fields THEN [ok |-> TRUE, v |-> default]
    ELSE IF item.fields[key].t # type THEN [ok |-> FALSE]
    ELSE [ok |-> TRUE, v |-> item.fields[key].v]

\* The body of the for loop of load_from_json for one item.
JsonItem(item) ==
    IF item.json # "object"
    THEN [ok |-> FALSE, what |-> "Each factor item must be a JSON object"]
    ELSE LET mode == JsonAt(item, "mode", "string")
             fuel_type == JsonValue(item, "fuel_type", "string", <<>>)
             vehicle_size == JsonValue(item, "vehicle_size", "string", <<>>)
             kg_co2_per_km == JsonAt(item, "kg_co2_per_km", "number")
             source == JsonValue(item, "source", "string", <<"UNKNOWN">>)
             updated_at == JsonValue(item, "updated_at", "number", 0)
         IN IF ~(mode.ok /\ fuel_type.ok /\ vehicle_size.ok /\ kg_co2_per_km.ok
                 /\ source.ok /\ updated_at.ok)
            THEN [ok |-> FALSE, what |-> "JSON parsing error"]
            ELSE [ok |-> TRUE,
                  factor |-> EmissionFactor(mode.v, fuel_type.v, vehicle_size.v,
                                            kg_co2_per_km.v, source.v, updated_at.v)]

\* The for loop of load_from_json from item i on.
RECURSIVE JsonLoop(_, _, _)
JsonLoop(items, i, factors) ==
    IF i > Len(items) THEN [ok |-> TRUE, factors |-> factors]
    ELSE LET r == JsonItem(items[i])
         IN IF ~r.ok THEN [ok |-> FALSE, what |-> r.what]
            ELSE JsonLoop(items, i + 1, Append(factors, r.factor))

\* EmissionDataLoader::load_from_json: the vector, or the exception thrown.
load_from_json(j) ==
    IF j.json = "invalid" THEN [ok |-> FALSE, what |-> "JSON parsing error"]
    ELSE IF j.json # "array"
    THEN [ok |-> FALSE, what |-> "Expected JSON array of factors"]
    ELSE JsonLoop(j.items, 1, <<>>)

\* The text with the given lines, a line end between two of them and, with
\* nl, one after the last.
RECURSIVE JoinLines(_)
JoinLines(lines) ==
    IF lines = <<>> THEN <<>>
    ELSE IF Len(lines) = 1 THEN lines[1]
    ELSE lines[1] \o <<"\n">> \o JoinLines(Tail(lines))

CsvText(lines, nl) == JoinLines(lines) \o (IF nl THEN <<"\n">> ELSE <<>>)

\* A call of load_from_csv on the text with the given lines.
load_csv(lines, nl) ==
    /\ ret' = [op |-> "load_from_csv", at |-> now, lines |-> lines, nl |-> nl,
               res |-> load_from_csv(CsvText(lines, nl))]
    /\ UNCHANGED <<events_, cache_, api_keys_, app_names_, logs_, emission_factors_,
                   now, lastSum, since, mu_, pc, db_>>

\* A call of load_from_json.
load_json(j) ==
    /\ ret' = [op |-> "load_from_json", at |-> now, doc |-> j,
               res |-> load_from_json(j)]
    /\ UNCHANGED <<events_, cache_, api_keys_, app_names_, logs_, emission_factors_,
                   now, lastSum, since, mu_, pc, db_>>

\* The formats of emission_data_loader.hpp for one factor: the JSON object
\* with the five keys, and the CSV row mode,fuel_type,vehicle_size,
\* kg_co2_per_km,source.  NumberText writes a rate as its numeral.
NumberText(k) == IF k = 167 THEN <<"0.167">> ELSE <<"0.073">>

JsonOf(f) ==
    JObject([k \in {"mode", "fuel_type", "vehicle_size", "kg_co2_per_km", "source"} |->
                IF k = "kg_co2_per_km" THEN JNum(f.kg_co2_per_km) ELSE JStr(f[k])])

CsvRowOf(f) ==
    f.mode \o <<",">> \o f.fuel_type \o <<",">> \o f.vehicle_size \o <<",">>
        \o NumberText(f.kg_co2_per_km) \o <<",">> \o f.source

CsvHeader ==
    <<"mode", ",", "fuel_type", ",", "vehicle_size", ",", "kg_co2_per_km", ",", "source">>

\* The same factor loaded through both formats.
load_both(f) ==
    /\ ret' = [op |-> "load_both", at |-> now, factor |-> f,
               json |-> load_from_json(JArrayOf(<<JsonOf(f)>>)),
               csv |-> load_from_csv(CsvText(<<CsvHeader, CsvRowOf(f)>>, TRUE))]
    /\ UNCHANGED <<events_, cache_, api_keys_, app_names_, logs_, emission_factors_,
                   now, lastSum, since, mu_, pc, db_>>

----------------------------------------------------------------------------
(* The clock *)

Tick ==
    /\ now < Epoch0 + MaxTicks
    /\ now' = now + 1
    /\ UNCHANGED <<events_, cache_, api_keys_, app_names_, logs_, emission_factors_,
                   ret, lastSum, since>>
    /\ UNCHANGED <<mu_, pc, db_>>

----------------------------------------------------------------------------
(* Specifications *)

Init ==
    /\ events_ = EmptyMap
    /\ cache_ = EmptyMap
    /\ api_keys_ = EmptyMap
    /\ app_names_ = EmptyMap
    /\ logs_ = <<>>
    /\ emission_factors_ = <<>>
    /\ now = Epoch0
    /\ ret = [op |-> "init", at |-> Epoch0]
    /\ lastSum = [u \in Users |-> NoSummary]
    /\ since = [u \in Users |-> <<>>]
    /\ mu_ = {}
    /\ pc = [t \in Threads |-> Idle]
    /\ db_ = [events |-> <<>>, api_keys |-> EmptyMap, api_logs |-> <<>>]

\* Timestamps drawn for new events: one second after the first clock value (in
\* the future until the clock gets there) and the lower bounds of the first
\* week window and of the first month window (each is on the bound at Epoch0
\* and one second too old after a tick).
WindowTs == {Epoch0 + 1, Epoch0 - WEEK, Epoch0 - MONTH}

\* Events for the aggregation runs: default-constructed, then assigned.
AggEvents ==
    {MakeEvent(u, m, "", "", 1, 1, t) : u \in Users, m \in {"car", "bus"}, t \in WindowTs}

AggAdd == \E ev \in AggEvents : CountEvents(DOMAIN events_) < MaxEvents /\ add_event(ev)

AggSummarize == \E u \in Users : summarize(u)

NextAgg == AggAdd \/ AggSummarize \/ global_average_weekly \/ Tick

\* add_event, summarize, global_average_weekly and the clock: no clear operation.
SpecAgg == Init /\ [][NextAgg]_vars

\* Events for the whole-store runs: a distance may be negative (add_event
\* checks nothing), a timestamp is in the first week window or older.
StoreEvents ==
    {MakeEvent(u, "car", "", "", 1, d, t) :
        u \in Users, d \in {0 - 1, 1}, t \in {Epoch0 - WEEK, Epoch0 - MONTH}}

StoreAdd == \E ev \in StoreEvents : CountEvents(DOMAIN events_) < MaxEvents /\ add_event(ev)

StoreSummarize == \E u \in Users : summarize(u)

Next == StoreAdd \/ StoreSummarize \/ global_average_weekly \/ clear_db_events \/ clear_db \/ Tick

\* Every event and aggregation operation of the store, and the clock.
Spec == Init /\ [][Next]_vars

\* Events for the mass runs: every kind of mode, fuel, size and occupancy.
KgShapes ==
    { <<"subway", "", "", 1>>, <<"train", "", "", 1>>, <<"bus", "", "", 1>>,
      <<"car", "", "", 1>>, <<"car", "petrol", "small", 2>>, <<"bike", "", "", 1>> }

KgEvents ==
    {MakeEvent(u, k[1], k[2], k[3], k[4], d, Epoch0) : u \in Users, k \in KgShapes, d \in {1, 2}}

KgAdd == \E ev \in KgEvents : CountEvents(DOMAIN events_) < MaxEvents /\ add_event(ev)

KgSummarize == \E u \in Users : summarize(u)

NextKg == KgAdd \/ KgSummarize \/ global_average_weekly

\* The aggregation over events of every shape, at one clock value.
SpecKg == Init /\ [][NextKg]_vars

\* An object body with mode and distance_km, and one with ts as well.
Body2(m, d) == JObject([k \in {"mode", "distance_km"} |-> IF k = "mode" THEN m ELSE d])

Body3(m, d, t) ==
    JObject([k \in {"mode", "distance_km", "ts"} |->
                IF k = "mode" THEN m ELSE IF k = "distance_km" THEN d ELSE t])

\* Bodies of the requests drawn: text that does not parse, an array, three
\* bodies that pass every check (ts left out, 0 and a past second), and bodies
\* that fail one check or two: a mode in another case, a mode outside the
\* set, a number for the mode, a negative distance, a string for the distance
\* or for ts, and a missing key.
ApiBodies ==
    { InvalidJson, JArray,
      Body2(JStr("car"), JNum(2)),
      Body3(JStr("car"), JNum(2), JNum(0)),
      Body3(JStr("car"), JNum(2), JNum(Epoch0 - WEEK)),
      Body2(JStr("Car"), JNum(2)),
      Body2(JStr("plane"), JNum(2)),
      Body2(JNum(1), JNum(2)),
      Body2(JStr("car"), JNum(0 - 1)),
      Body2(JStr("plane"), JNum(0 - 1)),
      Body2(JStr("car"), JStr("far")),
      Body3(JStr("car"), JNum(2), JStr("noon")),
      JObject([k \in {"mode"} |-> JStr("car")]),
      JObject([k \in {"distance_km"} |-> JNum(2)]) }

\* Keys sent in X-API-Key; only the first is ever registered.
ApiKeys == {"k1", "k2"}

ApiRequests ==
    {[user_id |-> u, api_key |-> h, body |-> b] :
        u \in Users, h \in {NoHeader} \cup {Header(k) : k \in ApiKeys}, b \in ApiBodies}

ApiPost == \E req \in ApiRequests : CountEvents(DOMAIN events_) < MaxEvents /\ post_transit(req)

ApiSetKey == \E u \in Users : set_api_key(u, "k1", "app")

ApiConstruct ==
    \E u \in {"u1", ""}, m \in {"car", "Car"}, d \in {0 - 1, 2}, t \in {0, Epoch0 - WEEK} :
        construct(u, m, d, t)

NextApi == ApiPost \/ ApiSetKey \/ ApiConstruct \/ Tick

\* Key registration, transit posts, direct constructions and the clock.
SpecApi == Init /\ [][NextApi]_vars

\* Events for the log runs: two timestamps, so that a log can hold the same
\* event twice and a later event with the smaller ts.
LogEvents == {MakeEvent(u, "car", "", "", 1, 1, t) : u \in Users, t \in {Epoch0, Epoch0 - 1}}

LogAdd == \E ev \in LogEvents : CountEvents(DOMAIN events_) < MaxEvents /\ add_event(ev)

LogSummarize == \E u \in Users : summarize(u)

LogSetKey == \E u \in Users : set_api_key(u, "k1", "app")

NextLog == LogAdd \/ LogSummarize \/ LogSetKey \/ clear_db_events \/ clear_db

\* The event log of the store at one clock value: adds, reads through
\* summarize, key registration and both clear operations.
SpecLog == Init /\ [][NextLog]_vars

\* Events for the thread runs: one shape, at the clock's second.
ThreadEvents == {MakeEvent(u, "car", "", "", 1, 1, Epoch0) : u \in Users}

\* The events in the store and on their way into it.
PendingAdds == Cardinality({t \in Threads : pc[t].at \in {"lock", "locked"} /\ pc[t].op = "add_event"})

ThreadCallAdd ==
    \E t \in Threads, ev \in ThreadEvents :
        CountEvents(DOMAIN events_) + PendingAdds < MaxEvents /\ Call(t, "add_event", ev)

ThreadCallSummarize == \E t \in Threads, u \in Users : Call(t, "summarize", u)

ThreadCallGetEvents == \E t \in Threads, u \in Users : Call(t, "get_events", u)

ThreadCallRead == \E t \in Threads, op \in {"get_clients", "global_average_weekly"} : Call(t, op, "")

ThreadLock == \E t \in Threads : Lock(t)

ThreadAddPush == \E t \in Threads : AddPush(t)

ThreadAddErase == \E t \in Threads : AddErase(t)

ThreadSumRead == \E t \in Threads : SumRead(t)

ThreadSumInstall == \E t \in Threads : SumInstall(t)

ThreadRead == \E t \in Threads : Read(t)

ThreadUnlock == \E t \in Threads : Unlock(t)

NextThreads ==
    \/ ThreadCallAdd \/ ThreadCallSummarize \/ ThreadCallGetEvents \/ ThreadCallRead
    \/ ThreadLock \/ ThreadAddPush \/ ThreadAddErase \/ ThreadSumRead \/ ThreadSumInstall
    \/ ThreadRead \/ ThreadUnlock

\* Calls of add_event, summarize and the read operations from several
\* threads, at one clock value.
SpecThreads == Init /\ [][NextThreads]_vars

\* Events for the two-store runs: on the bound of the first week window or
\* of the first month window, or inside the week window.
BothEvents ==
    {MakeEvent(u, m, "", "", 1, 1, t) :
        u \in Users, m \in {"car", "bus"}, t \in {Epoch0, Epoch0 - WEEK, Epoch0 - MONTH}}

BothAdd == \E ev \in BothEvents : CountEvents(DOMAIN events_) < MaxEvents /\ both_add_event(ev)

BothSummarize == \E u \in Users : both_summarize(u)

NextBoth ==
    BothAdd \/ BothSummarize \/ both_global_average_weekly \/ both_clear_db_events \/ Tick

\* One sequence of add_event, clear_db_events, summarize and
\* global_average_weekly calls applied to both stores, and the clock.
SpecBoth == Init /\ [][NextBoth]_vars

\* Bodies for the backend runs: two that pass validation, one that does not.
BackendBodies ==
    { Body2(JStr("car"), JNum(2)), Body2(JStr("bus"), JNum(2)), Body2(JStr("plane"), JNum(2)) }

BackendPost ==
    \E u \in Users, h \in {NoHeader, Header("k1")}, b \in BackendBodies, thrown \in BOOLEAN :
        /\ Len(db_.events) < MaxEvents
        /\ mongo_post_transit([user_id |-> u, api_key |-> h, body |-> b], thrown)

BackendSetKey == \E u \in Users : mongo_set_api_key(u, "k1", "app")

NextBackend == BackendPost \/ BackendSetKey \/ Tick

\* Transit posts served from a MongoStore whose backend may fail.
SpecBackend == Init /\ [][NextBackend]_vars

\* Keys of the factors drawn: one key, and for each of its three components
\* a key that differs in that component alone (the size by being empty).
FactorKeys ==
    { <<"car", "petrol", "small">>, <<"taxi", "petrol", "small">>,
      <<"car", "diesel", "small">>, <<"car", "petrol", "">> }

\* Factors drawn: two rates per key.
Factors == {EmissionFactor(k[1], k[2], k[3], r, "DEFRA-2024", Epoch0) : k \in FactorKeys, r \in {167, 203}}

FactorStore ==
    \E factor \in Factors :
        /\ \/ Len(emission_factors_) < MaxFactors
           \/ GetEmissionFactor(factor.mode, factor.fuel_type, factor.vehicle_size).has_value
        /\ store_emission_factor(factor)

FactorGet == \E k \in FactorKeys : get_emission_factor(k[1], k[2], k[3])

NextFactors ==
    FactorStore \/ FactorGet \/ get_all_emission_factors \/ clear_emission_factors \/ clear_db

\* The emission-factor table of the store.
SpecFactors == Init /\ [][NextFactors]_vars

\* Inputs of the calculator runs: the seven transit modes, the two fallback
\* aliases and an unknown mode; fuels and sizes with and without a table
\* entry; occupancies below 1, 1 and the divisors of OccLcm; distances below
\* 0, 0 and above.
CalcModes ==
    {"car", "taxi", "bus", "subway", "train", "underground", "rail", "bike", "walk", "plane"}

CalcFuels == {"", "petrol", "hydrogen"}

CalcSizes == {"", "small", "medium"}

CalcOccupancies == {0 - 1, 0, 1, 2, 3}

CalcDistances == {0 - 1, 0, 10}

CalcCall ==
    \E m \in CalcModes, f \in CalcFuels, s \in CalcSizes, o \in CalcOccupancies, d \in CalcDistances :
        calculate(m, f, s, o, d)

NextCalc == CalcCall

\* Direct calls of calculate_co2_emissions.
SpecCalc == Init /\ [][NextCalc]_vars

\* Rows of the loader runs: a full row, a row with empty fuel and size, a
\* row with blanks around its fields, a row whose source is empty, rows of
\* three, four and six fields, a rate that is a word, a rate that is a
\* numeral followed by a letter, and a blank line.
RowFull == <<"car", ",", "petrol", ",", "small", ",", "0.167", ",", "TEST">>

RowBus == <<"bus", ",", ",", ",", "0.073", ",", "TEST">>

RowBlanks ==
    <<" ", "car", " ", ",", " ", "petrol", ",", "small", " ", ",", " ", "0.167", " ", ",",
      " ", "TEST", " ">>

RowNoSource == <<"car", ",", "petrol", ",", "small", ",", "0.167", ",">>

RowThree == <<"car", ",", "petrol", ",", "small">>

RowFour == <<"car", ",", "petrol", ",", "small", ",", "0.167">>

RowSix == <<"car", ",", "petrol", ",", "small", ",", "0.167", ",", "TEST", ",", "extra">>

RowInvalid == <<"car", ",", "petrol", ",", "small", ",", "invalid", ",", "TEST">>

RowPrefix == <<"car", ",", "petrol", ",", "small", ",", "0.167", "x", ",", "TEST">>

RowBlank == <<>>

CsvRows ==
    {RowFull, RowBus, RowBlanks, RowNoSource, RowThree, RowFour, RowSix, RowInvalid,
     RowPrefix, RowBlank}

RECURSIVE SeqsUpTo(_, _)
SeqsUpTo(S, n) ==
    IF n = 0 THEN {<<>>}
    ELSE LET shorter == SeqsUpTo(S, n - 1)
         IN shorter \cup {Append(q, x) : q \in shorter, x \in S}

\* The texts: no line at all, or a first line (the header, or a line that
\* reads as data) followed by at most MaxRows rows.
CsvLines ==
    {<<>>} \cup {<<first>> \o rows : first \in {CsvHeader, RowFull},
                                     rows \in SeqsUpTo(CsvRows, MaxRows)}

\* Items of the JSON runs: the five keys, the two required keys only, empty
\* fuel, size and source, an updated_at, no rate, a rate that is a string, a
\* mode that is a number, and an item that is no object.
ItemFull == JsonOf(EmissionFactor(<<"car">>, <<"petrol">>, <<"small">>, 167, <<"TEST">>, 0))

ItemRequired ==
    JObject([k \in {"mode", "kg_co2_per_km"} |-> IF k = "mode" THEN JStr(<<"bus">>) ELSE JNum(73)])

ItemEmpties == JsonOf(EmissionFactor(<<"bus">>, <<>>, <<>>, 73, <<>>, 0))

ItemUpdated ==
    JObject([k \in {"mode", "kg_co2_per_km", "updated_at"} |->
                IF k = "mode" THEN JStr(<<"bus">>) ELSE IF k = "updated_at" THEN JNum(5) ELSE JNum(73)])

ItemNoRate == JObject([k \in {"mode"} |-> JStr(<<"car">>)])

ItemRateString ==
    JObject([k \in {"mode", "kg_co2_per_km"} |->
                IF k = "mode" THEN JStr(<<"car">>) ELSE JStr(<<"invalid">>)])

ItemModeNumber ==
    JObject([k \in {"mode", "kg_co2_per_km"} |-> JNum(73)])

ItemNoObject == JArrayOf(<<>>)

JsonItems ==
    {ItemFull, ItemRequired, ItemEmpties, ItemUpdated, ItemNoRate, ItemRateString,
     ItemModeNumber, ItemNoObject}

\* The documents: text that does not parse, a top-level object, and arrays
\* of at most MaxRows items.
JsonDocs ==
    {InvalidJson, ItemFull} \cup {JArrayOf(items) : items \in SeqsUpTo(JsonItems, MaxRows)}

\* Factors for the runs through both formats.
BothFactors ==
    {EmissionFactor(m, f, s, k, src, 0) :
        m \in {<<"car">>, <<"bus">>}, f \in {<<>>, <<"petrol">>}, s \in {<<>>, <<"small">>},
        k \in {167, 73}, src \in {<<>>, <<"TEST">>}}

LoadCsv == \E lines \in CsvLines, nl \in BOOLEAN : load_csv(lines, nl)

LoadJson == \E j \in JsonDocs : load_json(j)

LoadBoth == \E f \in BothFactors : load_both(f)

NextLoad == LoadCsv \/ LoadJson \/ LoadBoth

\* Calls of the two loaders.
SpecLoad == Init /\ [][NextLoad]_vars

\* Inputs of the admin runs: one event per user, one key per user, one
\* request record, and two factors.
AdminEvents == {MakeEvent(u, "car", "", "", 1, 1, Epoch0) : u \in Users}

AdminKeys == {"k1", "k2"}

AdminFactors ==
    {EmissionFactor("car", "petrol", "small", 167, "DEFRA-2024", Epoch0),
     EmissionFactor("bus", "", "", 73, "DEFRA-2024", Epoch0)}

AdminAdd == \E ev \in AdminEvents : CountEvents(DOMAIN events_) < MaxEvents /\ add_event(ev)

AdminSummarize == \E u \in Users : summarize(u)

AdminSetKey == \E u \in Users : set_api_key(u, "k1", "app")

AdminLog ==
    /\ Len(logs_) < MaxLogs
    /\ append_log(ApiLogRecord(now, "GET", <<"/health">>, 200, 0, "unknown", ""))

AdminStore ==
    \E factor \in AdminFactors :
        /\ \/ Len(emission_factors_) < MaxFactors
           \/ GetEmissionFactor(factor.mode, factor.fuel_type, factor.vehicle_size).has_value
        /\ store_emission_factor(factor)

NextAdmin ==
    AdminAdd \/ AdminSummarize \/ AdminSetKey \/ AdminLog \/ AdminStore
        \/ clear_db_events \/ clear_db

\* Every kind of data the store holds, and the two admin clears.
SpecAdmin == Init /\ [][NextAdmin]_vars

\* Requests of the gate runs: each user, no header or one of two keys, and
\* for the posts a body that passes every check, text that does not parse
\* and a body with a mode outside the set.
GateBodies == {Body2(JStr("car"), JNum(2)), InvalidJson, Body2(JStr("plane"), JNum(2))}

GateRequests ==
    {[user_id |-> u, api_key |-> h, body |-> b] :
        u \in Users, h \in {NoHeader} \cup {Header(k) : k \in ApiKeys}, b \in GateBodies}

GateEndpoints == {"lifetime-footprint", "suggestions", "analytics"}

GateSetKey == \E u \in Users, k \in ApiKeys : set_api_key(u, k, "app")

GatePost ==
    \E req \in GateRequests :
        /\ TransitAnswer(req, now).status = 201
              => (CountEvents(DOMAIN events_) < MaxEvents /\ Len(logs_) < MaxLogs)
        /\ post_transit(req)

\* A read carries no body.
GateGet ==
    \E endpoint \in GateEndpoints, req \in GateRequests :
        /\ req.body = InvalidJson
        /\ GetAnswer(req, now).status = 200 => Len(logs_) < MaxLogs
        /\ get_user(endpoint, req)

NextGate == GateSetKey \/ GatePost \/ GateGet

\* Key registration and changes, transit posts and the three summary reads.
SpecGate == Init /\ [][NextGate]_vars

\* Keys and application names of the key runs, the empty string among both.
KeyKeys == {"", "k1", "k2"}

KeyAppNames == {"", "app", "app2"}

KeySet == \E u \in Users, k \in KeyKeys, a \in KeyAppNames : set_api_key(u, k, a)

NextKeys == KeySet

\* Sequences of set_api_key calls.
SpecKeys == Init /\ [][NextKeys]_vars

\* Records and limits of the log runs: four requests that are logged, and
\* limits below, at and above the number of records held.
LogRecords ==
    {ApiLogRecord(now, "GET", <<"/health">>, 200, 0, "unknown", ""),
     ApiLogRecord(now, "POST", <<"/users", "register">>, 201, 0, "unknown", "u1"),
     ApiLogRecord(now, "POST", <<"/users", "u1", "transit">>, 201, 0, "unknown", "u1"),
     ApiLogRecord(now, "GET", <<"/users", "u1", "suggestions">>, 200, 0, "unknown", "u1")}

LogLimits == {0, 1, MaxLogs, DefaultLogLimit}

LogsAppend == \E rec \in LogRecords : Len(logs_) < MaxLogs /\ append_log(rec)

LogsGet == \E limit \in LogLimits : call_get_logs(limit)

NextLogs == LogsAppend \/ LogsGet \/ clear_logs

\* The request log of the store.
SpecLogs == Init /\ [][NextLogs]_vars

\* Inputs of the analytics runs: car trips of two lengths at the clock's
\* first second, and of one length at the oldest second of its first window;
\* requests with the registered key and without a header.
AnalyticsEvents ==
    {MakeEvent(u, "car", "", "", 1, d, Epoch0) : u \in Users, d \in {1, 2}}
        \cup {MakeEvent(u, "car", "", "", 1, 1, Epoch0 - WEEK) : u \in Users}

AnalyticsRequests ==
    {[user_id |-> u, api_key |-> h, body |-> InvalidJson] :
        u \in Users, h \in {NoHeader, Header("k1")}}

AnalyticsAdd ==
    \E ev \in AnalyticsEvents : CountEvents(DOMAIN events_) < MaxEvents /\ add_event(ev)

AnalyticsSetKey == \E u \in Users : set_api_key(u, "k1", "app")

AnalyticsGet ==
    \E req \in AnalyticsRequests :
        /\ AnalyticsAnswer(req, now).status = 200 => Len(logs_) < MaxLogs
        /\ get_analytics(req)

NextAnalytics ==
    AnalyticsAdd \/ AnalyticsSetKey \/ AnalyticsGet \/ clear_db_events \/ Tick

\* Events, analytics reads, the events clear and the clock.
SpecAnalytics == Init /\ [][NextAnalytics]_vars

\* Inputs of the runs of the calculator beside the store's factor table:
\* stored factors for a triple the defaults rate differently, for a triple
\* the defaults lack, and for bus; trips of one passenger.
TableFactors ==
    {EmissionFactor("car", "petrol", "small", 300, "TEST", Epoch0),
     EmissionFactor("car", "hydrogen", "", 50, "TEST", Epoch0),
     EmissionFactor("bus", "", "", 90, "TEST", Epoch0)}

TableStore ==
    \E factor \in TableFactors :
        /\ \/ Len(emission_factors_) < MaxFactors
           \/ GetEmissionFactor(factor.mode, factor.fuel_type, factor.vehicle_size).has_value
        /\ store_emission_factor(factor)

TableCalc ==
    \E m \in {"car", "bus"}, f \in {"", "petrol", "hydrogen"}, s \in {"", "small"}, d \in {0, 10} :
        calculate(m, f, s, 1, d)

NextTable == TableStore \/ TableCalc \/ clear_emission_factors

\* The store's factor table and direct calls of calculate_co2_emissions.
SpecTable == Init /\ [][NextTable]_vars

\* Calls of the liveness runs: one event, one user, one factor.
LiveEvents == {MakeEvent("u1", "car", "", "", 1, 1, Epoch0)}

LiveFactors == {EmissionFactor("bus", "", "", 73, "DEFRA-2024", Epoch0)}

LiveCallAdd ==
    \E t \in Threads, ev \in LiveEvents :
        CountEvents(DOMAIN events_) + PendingAdds < MaxEvents /\ Call(t, "add_event", ev)

LiveCallSummarize == \E t \in Threads : Call(t, "summarize", "u1")

LiveCallClientData == \E t \in Threads : CallClientData(t, "u1")

LiveCallGetLogs == \E t \in Threads : Call(t, "get_logs", DefaultLogLimit)

LiveCallStoreFactor == \E t \in Threads, f \in LiveFactors : Call(t, "store_emission_factor", f)

\* The steps of thread t inside a call that wait for nothing.
LiveStep(t) ==
    \/ ClientData(t) \/ AddPush(t) \/ AddErase(t) \/ SumRead(t) \/ SumInstall(t)
    \/ Read(t) \/ LogsRead(t) \/ FactorWrite(t) \/ Unlock(t)

LiveSteps == \E t \in Threads : LiveStep(t)

NextLive ==
    \/ LiveCallAdd \/ LiveCallSummarize \/ LiveCallClientData \/ LiveCallGetLogs
    \/ LiveCallStoreFactor \/ ThreadLock \/ LiveSteps

\* Calls from several threads under fair scheduling: a thread inside a call
\* takes its next step, and a thread waiting for mu_ gets it if it is free
\* again and again.
SpecLive ==
    /\ Init
    /\ [][NextLive]_vars
    /\ \A t \in Threads : WF_vars(LiveStep(t)) /\ SF_vars(Lock(t))

\* Inputs of the register runs: the ids and keys the random draws can give,
\* and bodies with a string app_name, an empty one, a number for it, none,
\* and text that does not parse.
RegisterIds == {"u_1a", "u_2b"}

RegisterKeys == {"r1", "r2"}

RegisterBodies ==
    {JObject([k \in {"app_name"} |-> JStr("app")]),
     JObject([k \in {"app_name"} |-> JStr("")]),
     JObject([k \in {"app_name"} |-> JNum(1)]),
     JObject(EmptyMap),
     InvalidJson}

RegisterPost ==
    \E body \in RegisterBodies, id \in RegisterIds, key \in RegisterKeys :
        /\ RegisterAnswer(body, id, key).status = 201 => Len(logs_) < MaxLogs
        /\ register(body, id, key)

NextRegister == RegisterPost \/ clear_logs

\* Registrations.
SpecRegister == Init /\ [][NextRegister]_vars

\* Requests of the logging runs: one user with a key, Authorization headers
\* that pass and fail each test of check_admin, the environment with and
\* without the admin key, and bodies that are accepted and refused.
RequestUsers == {"u1"}

RequestAuths == {NoHeader, NotBearer("adm"), Bearer("adm"), Bearer("bad")}

RequestEnvs == {EnvUnset, EnvKey("adm")}

RequestTransits ==
    {[user_id |-> u, api_key |-> h, body |-> b] :
        u \in RequestUsers, h \in {NoHeader, Header("k1"), Header("k2")},
        b \in {Body2(JStr("car"), JNum(2)), InvalidJson, Body2(JStr("plane"), JNum(2))}}

RequestReads ==
    {[user_id |-> u, api_key |-> h, body |-> InvalidJson] :
        u \in RequestUsers, h \in {NoHeader, Header("k1"), Header("k2")}}

RequestRegisters == {InvalidJson, JObject([k \in {"app_name"} |-> JStr("app")])}

RequestSetKey == \E u \in RequestUsers : set_api_key(u, "k1", "app")

RequestHealth == Len(logs_) < MaxLogs /\ health

RequestRegister ==
    \E body \in RequestRegisters :
        /\ RegisterAnswer(body, "u_1a", "r1").status = 201 => Len(logs_) < MaxLogs
        /\ register(body, "u_1a", "r1")

RequestPost ==
    \E req \in RequestTransits :
        /\ TransitAnswer(req, now).status = 201
              => (CountEvents(DOMAIN events_) < MaxEvents /\ Len(logs_) < MaxLogs)
        /\ post_transit(req)

RequestGet ==
    \E endpoint \in {"lifetime-footprint", "suggestions"}, req \in RequestReads :
        /\ GetAnswer(req, now).status = 200 => Len(logs_) < MaxLogs
        /\ get_user(endpoint, req)

RequestAnalytics ==
    \E req \in RequestReads :
        /\ AnalyticsAnswer(req, now).status = 200 => Len(logs_) < MaxLogs
        /\ get_analytics(req)

RequestAdmin ==
    \E authorization \in RequestAuths, env_key \in RequestEnvs :
        \/ admin_get_logs(authorization, env_key)
        \/ admin_delete_logs(authorization, env_key)
        \/ admin_clients(authorization, env_key)
        \/ \E client_id \in RequestUsers : admin_client_data(client_id, authorization, env_key)
        \/ admin_clear_db_events(authorization, env_key)
        \/ admin_clear_db(authorization, env_key)

NextRequests ==
    RequestSetKey \/ RequestHealth \/ RequestRegister \/ RequestPost \/ RequestGet
        \/ RequestAnalytics \/ RequestAdmin

\* Requests to every route of the server.
SpecRequests == Init /\ [][NextRequests]_vars

\* Bodies for the timestamp runs: ts left out, 0, a past second and a future
\* second, and a body the constructor rejects.
TsBodies ==
    { Body2(JStr("car"), JNum(2)),
      Body3(JStr("car"), JNum(2), JNum(0)),
      Body3(JStr("car"), JNum(2), JNum(Epoch0 - WEEK)),
      Body3(JStr("car"), JNum(2), JNum(Epoch0 + WEEK)),
      Body2(JStr("plane"), JNum(2)) }

TsPost ==
    \E u \in Users, b \in TsBodies :
        /\ CountEvents(DOMAIN events_) < MaxEvents
        /\ post_transit([user_id |-> u, api_key |-> Header("k1"), body |-> b])

TsSetKey == \E u \in Users : set_api_key(u, "k1", "")

\* Direct constructions: ts 0, a past second and a future second.
TsConstruct ==
    \E u \in {"u1", ""}, t \in {0, Epoch0 - WEEK, Epoch0 + WEEK} : construct(u, "car", 2, t)

\* Direct calls of the helper: the caller passes no clock reading or its own.
TsMake ==
    \E u \in {"u1", ""}, body \in TsBodies, now_epoch \in {0, now} :
        make_from_json(u, body, now_epoch)

NextTs == TsPost \/ TsSetKey \/ TsConstruct \/ TsMake \/ Tick

\* Every way an event gets its timestamp, and the clock.
SpecTs == Init /\ [][NextTs]_vars

----------------------------------------------------------------------------
(* Vocabulary of the properties *)

\* The mass the store's aggregation gives one event, in 1/1000 kg.
KgOf(ev) == emission_factor_for(ev.mode) * ev.distance_km

\* The sum of KgOf over the events of vec with ts >= lo.
RECURSIVE SumFrom(_, _)
SumFrom(vec, lo) ==
    IF vec = <<>> THEN 0
    ELSE (IF Head(vec).ts >= lo THEN KgOf(Head(vec)) ELSE 0) + SumFrom(Tail(vec), lo)

\* The sum of KgOf over all the events of vec.
RECURSIVE SumAll(_)
SumAll(vec) == IF vec = <<>> THEN 0 ELSE KgOf(Head(vec)) + SumAll(Tail(vec))

\* The users with at least one stored event in the week window of clock clk.
ActiveUsers(clk) ==
    {u \in Users : \E i \in DOMAIN get_events(u) : get_events(u)[i].ts >= clk - WEEK}

\* The sum over the users of us of their in-window masses.
RECURSIVE SumWeeks(_, _)
SumWeeks(us, clk) ==
    IF us = {} THEN 0
    ELSE LET u == CHOOSE x \in us : TRUE
         IN SumFrom(get_events(u), clk - WEEK) + SumWeeks(us \ {u}, clk)

----------------------------------------------------------------------------
(* C1-C9: the aggregation of InMemoryStore *)

\* C1: with no clear operation, a summarize(u) that follows add_event calls
\* for u returns a lifetime equal to the lifetime the previous summarize(u)
\* returned plus the mass of each event added for u in between; with one
\* add_event(e) in between, that is the previous lifetime plus
\* emission_factor_for(e.mode) * e.distance_km.
C1_AddThenSummarize ==
    (ret.op = "summarize" /\ ret.prev # NoSummary /\ Len(ret.added) >= 1)
        => ret.val.lifetime_kg_co2 = ret.prev.lifetime_kg_co2 + SumAll(ret.added)

\* C1 witness: a summarize(u) had cached a non-zero summary, then exactly one
\* event of non-zero mass was added for u, then summarize(u) returned.
C1_Witness ==
    /\ ret.op = "summarize"
    /\ ret.prev # NoSummary
    /\ ret.prev.lifetime_kg_co2 > 0
    /\ Len(ret.added) = 1
    /\ KgOf(ret.added[1]) > 0
    /\ ret.val.lifetime_kg_co2 > ret.prev.lifetime_kg_co2

\* C2: a summarize(u) made while the store holds no event for u returns
\* three zeros, after any sequence of add_event, summarize, clear_db_events
\* and clear_db.
C2_NoEventsAllZero ==
    (ret.op = "summarize" /\ ret.user \notin get_clients) => ret.val = ZeroSummary

\* C3: every summarize(u) returns the week sum and the month sum of u's
\* stored events for the window bounds of the clock value of that call.
C3_WindowsOfThisCall ==
    ret.op = "summarize"
        => /\ ret.val.week_kg_co2 = SumFrom(get_events(ret.user), ret.at - WEEK)
           /\ ret.val.month_kg_co2 = SumFrom(get_events(ret.user), ret.at - MONTH)

\* C4: the mass the aggregation gives a stored event is the mass
\* calculate_co2_emissions gives its fields: a summarize of a user whose log
\* is one event returns that mass as the lifetime sum (both sides in
\* 1/(1000 * OccLcm) kg).
C4_KgIsCalculated ==
    \A u \in get_clients : \A i \in DOMAIN events_[u] :
        LET ev == events_[u][i]
            c == calculate_co2_emissions(ev.mode, ev.fuel_type, ev.vehicle_size,
                                         ev.occupancy, ev.distance_km)
        IN (ret.op = "summarize" /\ ret.user = u /\ Len(events_[u]) = 1)
               => c.ok /\ ret.val.lifetime_kg_co2 * OccLcm = c.kg

\* C5: for a summarize of a user whose log is one event, the event counts in
\* the week sum when its ts is the call's now - WEEK and not when it is one
\* second older, likewise for the month sum and now - MONTH, and it counts in
\* the lifetime sum whatever its ts.
C5_InclusiveBounds ==
    (ret.op = "summarize" /\ Len(get_events(ret.user)) = 1)
        => LET ev == get_events(ret.user)[1]
           IN /\ ev.ts = ret.at - WEEK => ret.val.week_kg_co2 = KgOf(ev)
              /\ ev.ts = ret.at - WEEK - 1 => ret.val.week_kg_co2 = 0
              /\ ev.ts = ret.at - MONTH => ret.val.month_kg_co2 = KgOf(ev)
              /\ ev.ts = ret.at - MONTH - 1 => ret.val.month_kg_co2 = 0
              /\ ret.val.lifetime_kg_co2 = KgOf(ev)

\* C6: when every stored event has distance_km >= 0, a summary returned by
\* summarize has lifetime >= month >= week >= 0.
C6_Ordered ==
    (/\ ret.op = "summarize"
     /\ \A u \in get_clients : \A i \in DOMAIN events_[u] : events_[u][i].distance_km >= 0)
        => /\ ret.val.lifetime_kg_co2 >= ret.val.month_kg_co2
           /\ ret.val.month_kg_co2 >= ret.val.week_kg_co2
           /\ ret.val.week_kg_co2 >= 0

\* C7: global_average_weekly returns S / N, N the number of users with a
\* stored event in the week window of the call's clock and S the sum of the
\* in-window masses of exactly those users, and 0.0 when N = 0.
C7_GlobalAverage ==
    ret.op = "global_average_weekly"
        => LET act == ActiveUsers(ret.at)
               N == Cardinality(act)
               S == SumWeeks(act, ret.at)
           IN IF N = 0 THEN ret.val.num = 0
              ELSE ret.val.num * N = S * ret.val.den

\* C7 witness: one user has an in-window event, the other only an older one,
\* and the average returned is the first user's non-zero week sum.
C7_Witness ==
    /\ ret.op = "global_average_weekly"
    /\ Cardinality(ActiveUsers(ret.at)) = 1
    /\ get_clients = Users
    /\ ret.val.den = 1
    /\ ret.val.num > 0

\* C8: whenever exactly one user u has events in the week window of the
\* current clock, global_average_weekly() and summarize(u).week_kg_co2,
\* called now, are equal.
C8_OneActiveUser ==
    \A u \in Users :
        ActiveUsers(now) = {u}
            => GlobalAverageValue(now).num
                   = SummarizeValue(u, now).week_kg_co2 * GlobalAverageValue(now).den

\* C9: a summarize call leaves get_events of every user, get_clients and
\* global_average_weekly as they were, and a summarize(u) that follows a
\* summarize(u) with no other store call in between returns the same summary.
C9_SummarizeReadOnly ==
    [][ /\ (ret'.op = "summarize" /\ now' = now)
            => /\ \A u \in Users : get_events(u)' = get_events(u)
               /\ get_clients' = get_clients
               /\ GlobalAverageValue(now)' = GlobalAverageValue(now)
        /\ (ret.op = "summarize" /\ ret'.op = "summarize" /\ ret'.user = ret.user)
            => ret'.val = ret.val ]_vars

\* C9 witness: a second summarize(u) in a row, made after the clock moved,
\* for a user with a non-zero summary.
C9_Witness ==
    /\ ret.op = "summarize"
    /\ ret.prev # NoSummary
    /\ ret.added = <<>>
    /\ ret.at > Epoch0
    /\ ret.val.lifetime_kg_co2 > 0
    /\ ret.user \in DOMAIN cache_

----------------------------------------------------------------------------
(* C10: validation in the constructor and in POST /users/{id}/transit *)

AllowedModes == {"taxi", "car", "bus", "subway", "train", "bike", "walk"}

\* The request lacks mode or distance_km, or its mode is not one of the seven
\* allowed strings, or its distance_km is a negative number.
FailsChecks(req) ==
    \/ ~Contains(req.body, "mode")
    \/ ~Contains(req.body, "distance_km")
    \/ req.body.fields["mode"].t # "string"
    \/ req.body.fields["mode"].v \notin AllowedModes
    \/ (req.body.fields["distance_km"].t = "number" /\ req.body.fields["distance_km"].v < 0)

\* C10 as stated: every request to the transit handler that fails a check is
\* answered 400.
C10_Rejected400 ==
    (ret.op = "POST transit" /\ FailsChecks(ret.req)) => ret.status = 400

\* C10 as amended: the constructor fails for an empty user_id, a negative
\* distance_km or a mode outside the seven (case matters); a transit request
\* that fails a check leaves every user's log unchanged and is answered 400
\* when it passes authentication, and 401 when it does not.
C10_RejectedTransit ==
    [][ /\ (/\ ret'.op = "TransitEvent"
            /\ \/ ret'.args[1] = ""
               \/ ret'.args[3] < 0
               \/ ret'.args[2] \notin AllowedModes)
            => ~ret'.res.ok
        /\ (ret'.op = "POST transit" /\ FailsChecks(ret'.req))
            => /\ \A u \in Users : get_events(u)' = get_events(u)
               /\ get_clients' = get_clients
               /\ ret'.status = IF check_auth(ret'.req, ret'.req.user_id) THEN 400 ELSE 401 ]_vars

\* C10 witness: an authenticated request whose mode is "Car" was answered 400
\* while the store held an event.
C10_Witness ==
    /\ ret.op = "POST transit"
    /\ ret.status = 400
    /\ Contains(ret.req.body, "mode")
    /\ ret.req.body.fields["mode"] = JStr("Car")
    /\ check_auth(ret.req, ret.req.user_id)
    /\ get_clients # {}

----------------------------------------------------------------------------
(* C11: the timestamp of an ingested event *)

\* The ts a body submits: 0 when the body has no ts.
SubmittedTs(body) == IF Contains(body, "ts") THEN body.fields["ts"].v ELSE 0

\* The last event of user's log.
LastEvent(user) == get_events(user)[Len(get_events(user))]

----------------------------------------------------------------------------
(* C12-C14: the per-user event log *)

IsPrefix(p, q) == Len(p) <= Len(q) /\ SubSeq(q, 1, Len(p)) = p

ClearOps == {"clear_db_events", "clear_db"}

\* C12: each add_event(e) makes get_events(e.user_id) its previous value with
\* e appended at the end, whatever e's ts and whether or not e is already in
\* the log; over any step that is not a clear operation, the previous
\* get_events(u) of every user is a prefix of the next one.
C12_AppendOnly ==
    [][ /\ \A u \in Users :
               (ret'.op = "add_event" /\ ret'.user = u)
                   => get_events(u)' = Append(get_events(u), ret'.ev)
        /\ ret'.op \notin ClearOps
            => \A u \in Users : IsPrefix(get_events(u), get_events(u)') ]_vars

\* C12 witness: the event just added is the second of its user's log and has
\* a smaller ts than the first.
C12_Witness ==
    /\ ret.op = "add_event"
    /\ Len(get_events(ret.user)) = 2
    /\ get_events(ret.user)[2] = ret.ev
    /\ get_events(ret.user)[1].ts > ret.ev.ts

\* C13: an add_event for user A leaves get_events(B), summarize(B) and the
\* cached summary of B as they were, for every other user B.
C13_OtherUsersUntouched ==
    [][ ret'.op = "add_event"
            => \A B \in Users \ {ret'.user} :
                  /\ get_events(B)' = get_events(B)
                  /\ SummarizeValue(B, now)' = SummarizeValue(B, now)
                  /\ (B \in DOMAIN cache_) = (B \in DOMAIN cache_')
                  /\ B \in DOMAIN cache_ => cache_'[B] = cache_[B] ]_vars

\* C13 witness: an event was added for one user while the other user has a
\* log and a cached non-zero summary.
C13_Witness ==
    /\ ret.op = "add_event"
    /\ \E B \in Users \ {ret.user} :
           /\ get_events(B) # <<>>
           /\ B \in DOMAIN cache_
           /\ cache_[B].lifetime_kg_co2 > 0

\* C14: get_clients() lists each user with a non-empty get_events once and no
\* other user; it lists nobody before any add_event and right after
\* clear_db_events() or clear_db(); set_api_key and summarize leave it as it
\* was.
C14_Clients ==
    /\ [](/\ Len(ClientsVector) = Cardinality(get_clients)
          /\ get_clients = {u \in Users : get_events(u) # <<>>}
          /\ ret.op \in {"init"} \cup ClearOps => get_clients = {})
    /\ [][ ret'.op \in {"set_api_key", "summarize"} => get_clients' = get_clients ]_vars

\* C14 witness: a user with an API key and a summarize call behind them is
\* not listed, while the other user, who has an event, is.
C14_Witness ==
    /\ ret.op = "summarize"
    /\ ret.user \in DOMAIN api_keys_
    /\ ret.user \notin get_clients
    /\ Cardinality(get_clients) = 1

----------------------------------------------------------------------------
(* C15-C16: InMemoryStore under concurrent calls *)

\* Some add_event has pushed its event and not yet erased the cache entry.
MidAdd == \E t \in Threads : pc[t].at = "pushed"

\* Thread t takes the step in which its call reads the store.
Observes(t) ==
    /\ pc[t].at = "locked"
    /\ pc[t].op \in ReadOps \cup {"summarize"}
    /\ pc'[t].at # "locked"

\* What summarize(u) is to return at clock clk: the fold of u's whole log.
Recomputed(u, clk) ==
    FootprintSummary(SumAll(get_events(u)), SumFrom(get_events(u), clk - WEEK),
                     SumFrom(get_events(u), clk - MONTH))

\* C15: under every interleaving, no summarize, get_events, get_clients or
\* global_average_weekly call reads the store between the push_back and the
\* cache erase of an add_event, and at most one thread is inside an operation
\* of the store at a time.
C15_AddIsAtomic ==
    [][ /\ \A t \in Threads : Observes(t) => ~MidAdd
        /\ Cardinality({t \in Threads : pc'[t].at \in {"locked", "pushed", "folded", "unlock"}}) <= 1
      ]_vars

\* C15 witness: an add_event has pushed its event for a user whose pre-add
\* cache entry is still present, while a summarize of that user and a
\* get_events call wait for the lock.
C15_Witness ==
    \E t \in Threads, r1 \in Threads, r2 \in Threads :
        /\ pc[t].at = "pushed"
        /\ pc[t].arg.user_id \in DOMAIN cache_
        /\ pc[r1].at = "lock" /\ pc[r1].op = "summarize" /\ pc[r1].arg = pc[t].arg.user_id
        /\ pc[r2].at = "lock" /\ pc[r2].op = "get_events"

\* C16: at a fixed clock, whenever every add_event and summarize call has
\* returned, summarize(u) gives the summary recomputed from the whole log of
\* u, for every user u; a summarize never stores a fold of a log that an
\* add_event has extended since.
C16_NoStaleInstall ==
    /\ (\A t \in Threads : pc[t] = Idle)
           => \A u \in Users : SummarizeValue(u, now) = Recomputed(u, now)
    /\ \A t \in Threads :
           pc[t].at = "folded" => pc[t].val = Recomputed(pc[t].arg, pc[t].now)

\* C16 witness: all calls have returned, a user's log holds two events and
\* the user's cached summary counts both.
C16_Witness ==
    /\ \A t \in Threads : pc[t] = Idle
    /\ \E u \in Users :
           /\ Len(get_events(u)) = 2
           /\ u \in DOMAIN cache_
           /\ cache_[u].lifetime_kg_co2 = SumAll(get_events(u))
           /\ cache_[u].lifetime_kg_co2 > 0

----------------------------------------------------------------------------
(* C17: InMemoryStore and MongoStore *)

\* C17: after the same sequence of add_event, clear_db_events, summarize and
\* global_average_weekly calls at the same clock values, a summarize(u) or a
\* global_average_weekly() call returns the same value from both stores.
C17_SameValues ==
    ret.op \in {"summarize", "global_average_weekly"} => ret.val = ret.mongo

----------------------------------------------------------------------------
(* C18: a failure of the storage layer in the transit handler *)

\* C18: a transit post that passed authentication and validation and whose
\* store.add_event threw an exception derived from std::runtime_error is not
\* answered with the 400 of a validation failure.
C18_BackendFailureNot400 ==
    (ret.op = "POST transit" /\ ret.validated /\ ret.thrown
        /\ ret.req.api_key.header /\ MongoCheckApiKey(ret.req.user_id, ret.req.api_key.value))
        => ret.status # 400

----------------------------------------------------------------------------
(* C19-C20: the emission-factor table *)

KeyOf(f) == <<f.mode, f.fuel_type, f.vehicle_size>>

\* The positions of the table that hold the key k.
PositionsOf(k) == {i \in DOMAIN emission_factors_ : KeyOf(emission_factors_[i]) = k}

\* C19: get_all_emission_factors() holds at most one entry per key; storing
\* a factor whose key is in the table puts the factor at that key's position
\* and leaves every other position and the length as they were; storing a
\* factor right after storing the same factor changes nothing.
C19_OnePerKey ==
    /\ [](\A k \in FactorKeys : Cardinality(PositionsOf(k)) <= 1)
    /\ [](ret.op = "get_all_emission_factors"
            => \A i, j \in DOMAIN ret.val : KeyOf(ret.val[i]) = KeyOf(ret.val[j]) => i = j)
    /\ [][ ret'.op = "store_emission_factor"
             => /\ PositionsOf(KeyOf(ret'.factor)) # {}
                    => /\ Len(emission_factors_') = Len(emission_factors_)
                       /\ \A i \in DOMAIN emission_factors_ :
                              emission_factors_'[i]
                                  = IF i \in PositionsOf(KeyOf(ret'.factor))
                                    THEN ret'.factor ELSE emission_factors_[i]
                /\ (ret.op = "store_emission_factor" /\ ret.factor = ret'.factor)
                    => emission_factors_' = emission_factors_
      ]_vars

\* C19 witness: a factor was stored under the key of the first of two
\* entries, with another rate, and is now the first of two entries.
C19_Witness ==
    /\ ret.op = "store_emission_factor"
    /\ Len(emission_factors_) = 2
    /\ emission_factors_[1] = ret.factor
    /\ ret.factor.kg_co2_per_km = 203
    /\ KeyOf(emission_factors_[2])[1] = ret.factor.mode

\* C20: the table starts with no factor under any key; a store of F makes
\* the lookup of F's key return F and leaves the lookup of every other key as
\* it was; clear_emission_factors and clear_db make every lookup absent; no
\* other call changes a lookup; a lookup returns what the table holds under
\* its key, a factor with exactly that key or absent.
C20_ExactLookup ==
    /\ (ret.op = "init" => \A k \in FactorKeys : GetEmissionFactor(k[1], k[2], k[3]) = NullOpt)
    /\ [][ \A k \in FactorKeys :
             LET before == GetEmissionFactor(k[1], k[2], k[3])
                 after == GetEmissionFactor(k[1], k[2], k[3])'
             IN /\ after.has_value => KeyOf(after.value) = k
                /\ after = IF ret'.op = "store_emission_factor" /\ KeyOf(ret'.factor) = k
                           THEN Some(ret'.factor)
                           ELSE IF ret'.op \in {"clear_emission_factors", "clear_db"}
                           THEN NullOpt
                           ELSE before
                /\ (ret'.op = "get_emission_factor" /\ ret'.key = k) => ret'.val = before
      ]_vars

\* C20 witness: a lookup returned absent for a key while the table holds
\* factors under two keys that each differ from it in one component.
C20_Witness ==
    /\ ret.op = "get_emission_factor"
    /\ ret.key = <<"car", "petrol", "small">>
    /\ ret.val = NullOpt
    /\ PositionsOf(<<"car", "diesel", "small">>) # {}
    /\ PositionsOf(<<"car", "petrol", "">>) # {}

----------------------------------------------------------------------------
(* C21-C23: calculate_co2_emissions *)

\* The last call was calculate_co2_emissions(m, f, s, o, d).
Calculated == ret.op = "calculate_co2_emissions"

\* C21: for every mode, a call with distance_km < 0 or occupancy < 1 fails,
\* distance_km = 0 with occupancy < 1 included, and a call with
\* distance_km = 0 and occupancy >= 1 returns 0.
C21_Preconditions ==
    Calculated
        => LET o == ret.args[4]
               d == ret.args[5]
           IN /\ (d < 0 \/ o < 1) => ~ret.res.ok
              /\ (d = 0 /\ o >= 1) => (ret.res.ok /\ ret.res.kg = 0)
              /\ (d >= 0 /\ o >= 1) => ret.res.ok

\* C21 witness: a bus trip of distance 0 with occupancy 0 failed.
C21_Witness ==
    /\ Calculated
    /\ ret.args[1] = "bus"
    /\ ret.args[4] = 0
    /\ ret.args[5] = 0
    /\ ~ret.res.ok

FallbackRate(mode) ==
    IF mode \in {"car", "taxi"} THEN 180
    ELSE IF mode = "bus" THEN 73
    ELSE IF mode \in {"subway", "train", "underground", "rail"} THEN 41
    ELSE IF mode \in {"bike", "walk"} THEN 0
    ELSE 100

\* The rate a successful call used: its result for one passenger-km share.
RateUsed ==
    IF ret.args[1] \in {"car", "taxi"} THEN ret.res.kg * ret.args[4] ELSE ret.res.kg

\* C23: a call for a triple without a table entry uses the rate of its mode
\* alone (0.18 car and taxi, 0.073 bus, 0.041 subway, train, underground and
\* rail, 0 bike and walk, 0.1 otherwise); a call for a triple with an entry
\* uses the entry's rate.
C23_Fallback ==
    (Calculated /\ ret.res.ok)
        => LET entry == get_default_factor(ret.args[1], ret.args[2], ret.args[3])
               rate == IF entry.has_value THEN entry.value.kg_co2_per_km
                       ELSE FallbackRate(ret.args[1])
           IN RateUsed = rate * ret.args[5] * OccLcm

\* C23 witness: a bus trip with a fuel, for which the table has no entry,
\* was rated 0.073 per km.
C23_Witness ==
    /\ Calculated
    /\ ret.args = <<"bus", "petrol", "", 1, 10>>
    /\ ret.res.ok
    /\ ret.res.kg = 73 * 10 * OccLcm

----------------------------------------------------------------------------
(* C24-C27: EmissionDataLoader *)

\* s without the blanks around it.
RECURSIVE Stripped(_)
Stripped(s) ==
    IF s # <<>> /\ Head(s) \in Whitespace THEN Stripped(Tail(s))
    ELSE IF s # <<>> /\ s[Len(s)] \in Whitespace THEN Stripped(SubSeq(s, 1, Len(s) - 1))
    ELSE s

\* The comma-separated fields of a line: one more than it has commas.
RECURSIVE Fields(_)
Fields(line) ==
    LET commas == {i \in DOMAIN line : line[i] = ","}
        c == CHOOSE i \in commas : \A j \in commas : i <= j
    IN IF commas = {} THEN <<line>>
       ELSE <<SubSeq(line, 1, c - 1)>> \o Fields(SubSeq(line, c + 1, Len(line)))

\* A field that is a numeral, blanks around it aside.
Numeric(field) == Len(Stripped(field)) = 1 /\ Stripped(field)[1] \in NumberWords

NonBlank(line) == line # <<>>

\* The data rows of a text: its lines after the first that are not blank.
DataRows(lines) == IF lines = <<>> THEN <<>> ELSE SelectSeq(Tail(lines), NonBlank)

\* A text with no line at all.
NoLine(lines, nl) == lines = <<>> /\ ~nl

\* A row with no rate column, or with a rate that is no number.
RowLacksRate(row) == Len(Fields(row)) < 4 \/ ~Numeric(Fields(row)[4])

\* An item that is no object, lacks mode or kg_co2_per_km, or has a rate
\* that is no number.
ItemMalformed(item) ==
    \/ item.json # "object"
    \/ "mode" \notin DOMAIN item.fields
    \/ "kg_co2_per_km" \notin DOMAIN item.fields
    \/ item.fields["kg_co2_per_km"].t # "number"

LoadedCsv == ret.op = "load_from_csv"

LoadedJson == ret.op = "load_from_json"

\* C24: a loader call returns one factor for every data row or item, in
\* input order, or fails; a text with no line, a top level that is no
\* array, and a row or item that lacks its mode or rate, has a rate that is
\* no number or is no object, after any number of valid ones, make it fail.
C24_AllOrNothing ==
    /\ LoadedCsv
        => LET rows == DataRows(ret.lines)
           IN /\ ret.res.ok
                    => /\ Len(ret.res.factors) = Len(rows)
                       /\ \A i \in DOMAIN rows :
                              ret.res.factors[i].mode = Stripped(Fields(rows[i])[1])
              /\ (NoLine(ret.lines, ret.nl) \/ \E i \in DOMAIN rows : RowLacksRate(rows[i]))
                    => ~ret.res.ok
    /\ LoadedJson
        => /\ ret.res.ok
                => /\ ret.doc.json = "array"
                   /\ Len(ret.res.factors) = Len(ret.doc.items)
                   /\ \A i \in DOMAIN ret.doc.items :
                          ret.res.factors[i].mode = ret.doc.items[i].fields["mode"].v
           /\ (ret.doc.json # "array" \/ \E i \in DOMAIN ret.doc.items : ItemMalformed(ret.doc.items[i]))
                => ~ret.res.ok

\* A row of exactly five fields whose fourth is a number.
FiveFields(row) == Len(Fields(row)) = 5 /\ Numeric(Fields(row)[4])

\* C25: load_from_csv accepts a data row if and only if it has exactly five
\* comma-separated fields, the fourth a number (fuel_type, vehicle_size and
\* source may be empty): a load succeeds exactly when every non-blank data
\* row is such a row, and one with fewer or more fields aborts it.
C25_FiveFieldRows ==
    (LoadedCsv /\ ~NoLine(ret.lines, ret.nl))
        => (ret.res.ok <=> \A i \in DOMAIN DataRows(ret.lines) : FiveFields(DataRows(ret.lines)[i]))

\* The factor a five-field row stands for: its columns without the blanks
\* around them, the rate as a number, and updated_at 0.
FactorOfRow(row) ==
    LET f == Fields(row)
    IN EmissionFactor(Stripped(f[1]), Stripped(f[2]), Stripped(f[3]),
                      WordValue(Stripped(f[4])[1]), Stripped(f[5]), 0)

\* A text with a first line whose data rows all have five fields, the
\* fourth a number.
WellFormed(lines) ==
    /\ lines # <<>>
    /\ \A i \in DOMAIN DataRows(lines) : FiveFields(DataRows(lines)[i])

\* C26: for a well-formed text load_from_csv returns exactly the factors of
\* the non-blank lines after the first, in input order, each field the
\* column without the blanks around it and updated_at 0: none for the first
\* line, none for a blank line, the empty sequence for a header alone; a
\* text with no line at all fails.
C26_RowsInOrder ==
    LoadedCsv
        => /\ WellFormed(ret.lines)
                => /\ ret.res.ok
                   /\ ret.res.factors
                        = [i \in DOMAIN DataRows(ret.lines) |-> FactorOfRow(DataRows(ret.lines)[i])]
           /\ NoLine(ret.lines, ret.nl) => ~ret.res.ok

\* C27: a factor given as a JSON object with the five keys and the same
\* factor given as a CSV row load as equal EmissionFactor values in all six
\* fields, with fuel_type, vehicle_size or source empty as well.
C27_SameFactor ==
    ret.op = "load_both"
        => /\ ret.json.ok
           /\ ret.csv.ok
           /\ ret.json.factors = ret.csv.factors
           /\ ret.json.factors = <<ret.factor>>

----------------------------------------------------------------------------
(* C28-C29: the admin clears *)

\* C28: clear_db_events() removes only events: after it get_events(u) is
\* empty for every user, and check_api_key for every user and key,
\* get_logs() and the emission factors are what they were before the call.
C28_OnlyEvents ==
    [][ret'.op = "clear_db_events"
         => /\ \A u \in Users : get_events(u)' = <<>>
            /\ \A u \in Users, k \in AdminKeys : check_api_key(u, k)' = check_api_key(u, k)
            /\ get_logs(DefaultLogLimit)' = get_logs(DefaultLogLimit)
            /\ emission_factors_' = emission_factors_]_vars

\* C28 witness: after clear_db_events() u1's key still checks, the log and
\* the factor table still hold their entries, and the summary of u1's
\* removed events is still cached.
C28_Witness ==
    /\ ret.op = "clear_db_events"
    /\ check_api_key("u1", "k1")
    /\ Len(get_logs(DefaultLogLimit)) = MaxLogs
    /\ Len(emission_factors_) = MaxFactors
    /\ "u1" \in DOMAIN cache_
    /\ get_events("u1") = <<>>

\* C29: after clear_db() the store answers as a new one: no clients, no
\* logs, no events and a summary of zeros for every user, no key that
\* checks, no emission factors, and a global weekly average of 0.0.
C29_AsNew ==
    ret.op = "clear_db"
        => /\ get_clients = {}
           /\ get_logs(DefaultLogLimit) = <<>>
           /\ \A u \in Users : get_events(u) = <<>> /\ SummarizeValue(u, now) = ZeroSummary
           /\ \A u \in Users, k \in AdminKeys : ~check_api_key(u, k)
           /\ emission_factors_ = <<>>
           /\ GlobalAverageValue(now).num = 0

\* C29 witness: clear_db() has run and u1, who had a key, events and a
\* cached summary before it, has none of them.
C29_Witness ==
    /\ ret.op = "clear_db"
    /\ ~check_api_key("u1", "k1")
    /\ "u1" \notin DOMAIN cache_
    /\ "u1" \notin DOMAIN events_
    /\ logs_ = <<>>

----------------------------------------------------------------------------
(* C30: the API-key gate *)

\* The request carries no X-API-Key header, or its user has no key set, or
\* the header differs from the key set last for the user.
Unauthorized(req) ==
    \/ ~req.api_key.header
    \/ req.user_id \notin DOMAIN api_keys_
    \/ api_keys_[req.user_id] # hash_plain(req.api_key.value)

\* C30: a transit post or a lifetime-footprint, suggestions or analytics
\* read that carries no key, a key other than the one set last for the
\* user, or the id of a user without a key, is answered 401, whatever its
\* body; it appends no event, drops no cached summary and does not run
\* summarize.
C30_Gate ==
    [][(ret'.op \in {"POST transit", "GET"} /\ Unauthorized(ret'.req))
         => /\ ret'.status = 401
            /\ events_' = events_
            /\ cache_' = cache_
            /\ lastSum' = lastSum
            /\ since' = since]_vars

\* C30 witness: u1's key was changed after a post and a read with the old
\* one; a post with the old key and a valid body was answered 401, and
\* u1's event and cached summary are where they were.
C30_Witness ==
    /\ ret.op = "POST transit"
    /\ ret.status = 401
    /\ ret.req = [user_id |-> "u1", api_key |-> Header("k1"), body |-> Body2(JStr("car"), JNum(2))]
    /\ check_api_key("u1", "k2")
    /\ Len(get_events("u1")) = 1
    /\ "u1" \in DOMAIN cache_

----------------------------------------------------------------------------
(* C31: API keys *)

\* C31: check_api_key(u, k) is true exactly when k is the key of the last
\* set_api_key(u, ...) call: no key checks on a new store; a call
\* set_api_key(u, k, a) makes k, the empty string included, the one key
\* that checks for u, and changes no result of another user.
C31_LastKey ==
    /\ \A u \in Users, k \in KeyKeys : ~check_api_key(u, k)
    /\ [][\A u \in Users, k \in KeyKeys, a \in KeyAppNames :
             set_api_key(u, k, a)
                => /\ \A k2 \in KeyKeys : check_api_key(u, k2)' = (k2 = k)
                   /\ \A u2 \in Users \ {u}, k2 \in KeyKeys :
                          check_api_key(u2, k2)' = check_api_key(u2, k2)]_vars

\* C31 witness: u1's last key is the empty string and u2's is k1; each
\* checks for its user only.
C31_Witness ==
    /\ ret.op = "set_api_key"
    /\ check_api_key("u1", "")
    /\ ~check_api_key("u1", "k1")
    /\ check_api_key("u2", "k1")
    /\ ~check_api_key("u2", "")

----------------------------------------------------------------------------
(* C32: get_logs *)

\* C32: get_logs(limit) returns the min(limit, n) records appended last out
\* of the n stored, oldest first: with n > limit the oldest n - limit are
\* left out, and with no record the result is empty.
C32_LastRecords ==
    ret.op = "get_logs"
        => LET n == Len(logs_)
               k == IF ret.limit < n THEN ret.limit ELSE n
           IN /\ Len(ret.val) = k
              /\ \A i \in 1..k : ret.val[i] = logs_[n - k + i]

\* C32 witness: of two different records get_logs(1) returned the one
\* appended last.
C32_Witness ==
    /\ ret.op = "get_logs"
    /\ ret.limit = 1
    /\ Len(logs_) = 2
    /\ logs_[1] # logs_[2]
    /\ ret.val = <<logs_[2]>>

----------------------------------------------------------------------------
(* C33: analytics *)

\* The kg of the events of vec in the 7 days up to clk, in 1/1000 kg.
RECURSIVE WeekKg(_, _)
WeekKg(vec, clk) ==
    IF vec = <<>> THEN 0
    ELSE (IF Head(vec).ts >= clk - WEEK
          THEN emission_factor_for(Head(vec).mode) * Head(vec).distance_km ELSE 0)
         + WeekKg(Tail(vec), clk)

\* The users with an event in the 7 days up to clk.
WeekUsers(clk) == {u \in DOMAIN events_ : \E i \in DOMAIN events_[u] : events_[u][i].ts >= clk - WEEK}

\* The last request was an analytics read answered 200, and the clock has
\* not moved since.
AnalyticsRead == ret.op = "GET analytics" /\ ret.status = 200 /\ ret.at = now

\* C33: analytics reports above_peer_avg = true exactly when
\* summarize(u).week_kg_co2 > global_average_weekly(); so it is false for
\* each user when all users with events in the last 7 days have the same
\* week total, and false for a user with no events.
C33_AbovePeerAvg ==
    AnalyticsRead
        => LET u == ret.req.user_id
               avg == GlobalAverageValue(now)
           IN /\ ret.body.above_peer_avg
                    <=> SummarizeValue(u, now).week_kg_co2 * avg.den > avg.num
              /\ (\A v, w \in WeekUsers(now) : WeekKg(events_[v], now) = WeekKg(events_[w], now))
                    => ~ret.body.above_peer_avg
              /\ get_events(u) = <<>> => ~ret.body.above_peer_avg

----------------------------------------------------------------------------
(* C34: the calculator and the store's factor table *)

\* C34: calculate_co2_emissions(m, fu, s, 1, D) is the rate of the store's
\* factor for (m, fu, s) times D when the store has one, and the mode-only
\* rate times D when it has none, as for every triple after
\* clear_emission_factors().
C34_StoreTable ==
    (Calculated /\ ret.res.ok /\ ret.args[4] = 1)
        => LET entry == GetEmissionFactor(ret.args[1], ret.args[2], ret.args[3])
               rate == IF entry.has_value THEN entry.value.kg_co2_per_km
                       ELSE FallbackRate(ret.args[1])
           IN ret.res.kg = rate * ret.args[5] * OccLcm

----------------------------------------------------------------------------
(* C35: no call blocks for ever *)

----------------------------------------------------------------------------
(* C36: add_event after clear_db_events *)

\* C36: the first summarize(u) after a clear and the add_event calls for u
\* that followed it returns as lifetime the kg of those events alone: of e
\* alone after clear_db_events() and add_event(e), whether or not a summary
\* of u was cached before the clear.
C36_OnlySinceClear ==
    (ret.op = "summarize" /\ ret.prev = NoSummary /\ Len(ret.added) >= 1)
        => ret.val.lifetime_kg_co2 = SumAll(ret.added)

\* C36 witness: summaries were cached and clear_db_events() removed the
\* events (u2's summary is still cached, with no log); then one event was
\* added for u1 and summarize(u1) returned its kg.
C36_Witness ==
    /\ ret.op = "summarize"
    /\ ret.user = "u1"
    /\ ret.prev = NoSummary
    /\ Len(ret.added) = 1
    /\ KgOf(ret.added[1]) # 0
    /\ ret.val.lifetime_kg_co2 = KgOf(ret.added[1])
    /\ get_events("u1") = ret.added
    /\ "u2" \in DOMAIN cache_
    /\ "u2" \notin get_clients

----------------------------------------------------------------------------
(* C37: registration *)

\* C37: POST /users/register changes the credentials of no user who had a
\* key before the request, and the pair it returns checks.
C37_RegisterKeepsKeys ==
    [][ret'.op = "POST register"
         => /\ \A id \in DOMAIN api_keys_, k \in RegisterKeys :
                   check_api_key(id, k)' = check_api_key(id, k)
            /\ \A id \in RegisterIds, k \in RegisterKeys :
                   (ret'.status = 201 /\ ret'.answer.user_id = id /\ ret'.answer.api_key = k)
                       => check_api_key(id, k)']_vars


----------------------------------------------------------------------------
(* C38: request logging *)

\* The step appended exactly one record, with these four fields.
AppendedOne(method, path, status, user_id) ==
    /\ Len(logs_') = Len(logs_) + 1
    /\ SubSeq(logs_', 1, Len(logs_)) = logs_
    /\ logs_'[Len(logs_')].method = method
    /\ logs_'[Len(logs_')].path = path
    /\ logs_'[Len(logs_')].status = status
    /\ logs_'[Len(logs_')].user_id = user_id

\* What a request to a logged route did to the log: one record for 200
\* and 201, nothing for 400, 401 and 404.
LoggedRoute(method, path, user_id) ==
    /\ ret'.status \in {200, 201, 400, 401, 404}
    /\ ret'.status \in {200, 201} => AppendedOne(method, path, ret'.status, user_id)
    /\ ret'.status \in {400, 401, 404} => logs_' = logs_

\* The operations of the /admin routes.
AdminRoutes ==
    {"GET /admin/logs", "DELETE /admin/logs", "GET /admin/clients",
     "GET /admin/clients/data", "GET /admin/clear-db-events", "GET /admin/clear-db"}

\* The step appended no record: the log is as it was, or empty.
AppendedNone == logs_' = logs_ \/ logs_' = <<>>

\* C38: a request answered 200 or 201 by /health, /users/register, transit,
\* lifetime-footprint, suggestions or analytics appends exactly one record
\* with the request's method, path, status and user id; one answered 400,
\* 401 or 404 appends none; no /admin request appends one; and a GET
\* /admin/logs right after a DELETE /admin/logs returns an empty array.
C38_RequestLogging ==
    [][/\ ret'.op = "GET /health" => LoggedRoute("GET", <<"/health">>, "")
       /\ ret'.op = "POST register"
              => LoggedRoute("POST", <<"/users", "register">>,
                             IF ret'.status = 201 THEN ret'.answer.user_id ELSE "")
       /\ ret'.op = "POST transit"
              => LoggedRoute("POST", <<"/users", ret'.req.user_id, "transit">>,
                             ret'.req.user_id)
       /\ ret'.op = "GET"
              => LoggedRoute("GET", <<"/users", ret'.req.user_id, ret'.endpoint>>,
                             ret'.req.user_id)
       /\ ret'.op = "GET analytics"
              => LoggedRoute("GET", <<"/users", ret'.req.user_id, "analytics">>,
                             ret'.req.user_id)
       /\ ret'.op \in AdminRoutes => AppendedNone
       /\ (/\ ret.op = "DELETE /admin/logs"
           /\ ret.status = 200
           /\ ret'.op = "GET /admin/logs"
           /\ ret'.status = 200)
              => ret'.body = <<>>]_vars

\* C38 witness: a transit post was logged, DELETE /admin/logs emptied the
\* log, and the GET /admin/logs that followed returned an empty array.
C38_Witness ==
    /\ ret.op = "GET /admin/logs"
    /\ ret.status = 200
    /\ ret.body = <<>>
    /\ \E u \in DOMAIN events_ : events_[u] # <<>>


----------------------------------------------------------------------------
(* C39: reads for a user with no events *)

\* C39: after summarize(u) for a user u with no events, get_clients() does
\* not contain u and cache_ holds no entry for u; and when the first event
\* of u is then added, summarize(u) returns the kg of that event.
C39_NoStateCreated ==
    /\ (ret.op = "summarize" /\ get_events(ret.user) = <<>>)
          => (ret.user \notin get_clients /\ ret.user \notin DOMAIN cache_)
    /\ (ret.op = "summarize" /\ Len(get_events(ret.user)) = 1)
          => ret.val.lifetime_kg_co2 = KgOf(get_events(ret.user)[1])

====
